---- MODULE Spec2Model ----
(***************************************************************************)
(* Model of the measurement bot: the free-text parser (utils/parser.ts),   *)
(* the text-message and /clear handlers (index.ts) and the per-user store  *)
(* (services/dataService.ts).                                              *)
(*                                                                         *)
(* Strings are sequences of one-character strings.  A numeric value is a   *)
(* scaled decimal [cls, m, s] standing for m / 10^s, kept normalised (no   *)
(* trailing zero in the fraction), so equal numbers have equal             *)
(* representations; cls is "finite", "inf" or "nan".  A Date is            *)
(* [valid, time] with time counted in days since 1970-01-01 (UTC); an      *)
(* Invalid Date is [valid |-> FALSE, time |-> 0].                          *)
(***************************************************************************)
EXTENDS Integers, Sequences, FiniteSets, TLC

VARIABLES
    userDataStore,    \* DataService.userDataStore: user -> series in key insertion order
    userPreferences,  \* DataService.userPreferences: user -> preferences
    dataFile,         \* contents of data/user_data.json
    preferencesFile,  \* contents of data/user_preferences.json
    userTokens,       \* Server.userTokens: user -> dashboard token
    tokensFile,       \* contents of data/user_tokens.json
    now,              \* the wall clock read by new Date()
    msg,              \* text of the message handled last
    sender,           \* user the last update came from
    result,           \* outcome of parseMessage(msg) in the last handler run
    reply,            \* the reply the last handler run sent
    host,             \* Server.host: the start of every link the server builds
    userGroups,       \* Server.userGroups: user -> group id -> group
    response,         \* the response to the HTTP request handled last
    scene             \* user -> session of the delete scene

vars == <<userDataStore, userPreferences, dataFile, preferencesFile,
          userTokens, tokensFile, now, msg, sender, result, reply,
          host, userGroups, response, scene>>

\* The state of the web server and of the scenes, which the data service
\* and the parser do not touch.
serverVars == <<host, userGroups, response, scene>>

----------------------------------------------------------------------------
(* Characters *)

Digits == {"0", "1", "2", "3", "4", "5", "6", "7", "8", "9"}

IsDigit(c) == c \in Digits

\* White space of String.prototype.trim and of \s that a message can hold.
IsSpace(c) == c \in {" ", "\n", "\t", "\r"}

\* The character class [-/.] of the date patterns.
IsDateSep(c) == c \in {"-", "/", "."}

DigitVal(c) ==
    CASE c = "0" -> 0 [] c = "1" -> 1 [] c = "2" -> 2 [] c = "3" -> 3
      [] c = "4" -> 4 [] c = "5" -> 5 [] c = "6" -> 6 [] c = "7" -> 7
      [] c = "8" -> 8 [] c = "9" -> 9

\* Case folding of the /i flag, for the letters of the DATE label.
UpperChar(c) ==
    CASE c = "d" -> "D" [] c = "a" -> "A" [] c = "t" -> "T" [] c = "e" -> "E"
      [] OTHER -> c

Max(S) == CHOOSE x \in S : \A y \in S : y <= x

Min(S) == CHOOSE x \in S : \A y \in S : x <= y

Drop(s, n) == SubSeq(s, n + 1, Len(s))

Take(s, n) == SubSeq(s, 1, n)

----------------------------------------------------------------------------
(* String primitives *)

\* String.prototype.trim
trim(s) ==
    LET ns == {i \in 1..Len(s) : ~IsSpace(s[i])}
    IN  IF ns = {} THEN <<>> ELSE SubSeq(s, Min(ns), Max(ns))

\* String.prototype.trimStart (parseFloat skips leading white space)
trimStart(s) ==
    LET ns == {i \in 1..Len(s) : ~IsSpace(s[i])}
    IN  IF ns = {} THEN <<>> ELSE SubSeq(s, Min(ns), Len(s))

StartsWithAt(s, i, p) ==
    /\ i + Len(p) - 1 <= Len(s)
    /\ \A k \in 1..Len(p) : s[i + k - 1] = p[k]

\* Indices at which p occurs in s.
Occurrences(s, p) == {i \in 1..Len(s) : StartsWithAt(s, i, p)}

\* String.prototype.includes
includes(s, p) == Occurrences(s, p) # {}

\* String.prototype.split with a string separator: non-overlapping
\* occurrences, left to right.
RECURSIVE split(_, _)
split(s, sep) ==
    IF ~includes(s, sep) THEN <<s>>
    ELSE LET i == Min(Occurrences(s, sep))
         IN  <<Take(s, i - 1)>> \o split(Drop(s, i + Len(sep) - 1), sep)

\* replaceFirst without the replacement: the comma stays in the value.
replaceNone(s, a, b) == s

\* String.prototype.replace(',', '.') : the first occurrence only.
replaceFirst(s, a, b) ==
    LET occ == {i \in 1..Len(s) : s[i] = a}
    IN  IF occ = {} THEN s
        ELSE [i \in 1..Len(s) |-> IF i = Min(occ) THEN b ELSE s[i]]

\* Length of the run of digits of s that starts at index i.
DigitRun(s, i) ==
    LET stops == {j \in i..Len(s) : ~IsDigit(s[j])}
    IN  IF i > Len(s) THEN 0
        ELSE IF stops = {} THEN Len(s) - i + 1 ELSE Min(stops) - i

\* Length of the run of white space of s that starts at index i (\s*).
SpaceRun(s, i) ==
    LET stops == {j \in i..Len(s) : ~IsSpace(s[j])}
    IN  IF i > Len(s) THEN 0
        ELSE IF stops = {} THEN Len(s) - i + 1 ELSE Min(stops) - i

RECURSIVE DigitsToNat(_)
DigitsToNat(ds) ==
    IF ds = <<>> THEN 0
    ELSE 10 * DigitsToNat(Take(ds, Len(ds) - 1)) + DigitVal(ds[Len(ds)])

RECURSIVE Pow10(_)
Pow10(n) == IF n <= 0 THEN 1 ELSE 10 * Pow10(n - 1)

----------------------------------------------------------------------------
(* Numbers: parseFloat *)

NaN == [cls |-> "nan", m |-> 0, s |-> 0]

Infinity == <<"I", "n", "f", "i", "n", "i", "t", "y">>

\* m / 10^s with the trailing zeros of the fraction removed.
RECURSIVE Normalize(_, _)
Normalize(m, s) ==
    IF s < 0 THEN [cls |-> "finite", m |-> m * Pow10(-s), s |-> 0]
    ELSE IF m = 0 THEN [cls |-> "finite", m |-> 0, s |-> 0]
    ELSE IF s > 0 /\ m % 10 = 0 THEN Normalize(m \div 10, s - 1)
    ELSE [cls |-> "finite", m |-> m, s |-> s]

CharAt(s, i) == IF i \in 1..Len(s) THEN s[i] ELSE ""

\* The global parseFloat: skips leading white space, reads the longest
\* prefix that is a decimal literal (sign, Infinity, digits, fraction,
\* exponent) and ignores whatever follows it; NaN when there is no such
\* prefix.
parseFloat(str) ==
    LET t == trimStart(str)
        signed == CharAt(t, 1) \in {"+", "-"}
        sgn == IF CharAt(t, 1) = "-" THEN -1 ELSE 1
        u == IF signed THEN Tail(t) ELSE t
        n1 == DigitRun(u, 1)
        hasDot == CharAt(u, n1 + 1) = "."
        n2 == IF hasDot THEN DigitRun(u, n1 + 2) ELSE 0
        fracDs == IF hasDot THEN SubSeq(u, n1 + 2, n1 + 1 + n2) ELSE <<>>
        mantEnd == IF hasDot THEN n1 + 1 + n2 ELSE n1
        hasE == CharAt(u, mantEnd + 1) \in {"e", "E"}
        eSigned == hasE /\ CharAt(u, mantEnd + 2) \in {"+", "-"}
        eStart == mantEnd + 2 + (IF eSigned THEN 1 ELSE 0)
        ne == IF hasE THEN DigitRun(u, eStart) ELSE 0
        exp == IF ne = 0 THEN 0
               ELSE (IF CharAt(u, mantEnd + 2) = "-" THEN -1 ELSE 1)
                    * DigitsToNat(SubSeq(u, eStart, eStart + ne - 1))
    IN  IF StartsWithAt(u, 1, Infinity) THEN [cls |-> "inf", m |-> sgn, s |-> 0]
        ELSE IF n1 = 0 /\ n2 = 0 THEN NaN
        ELSE Normalize(sgn * DigitsToNat(Take(u, n1) \o fracDs), n2 - exp)

\* Number.isNaN / global isNaN on a number
isNaN(v) == v.cls = "nan"

----------------------------------------------------------------------------
(* Dates *)

Undefined == [type |-> "undefined"]

InvalidDate == [type |-> "Date", valid |-> FALSE, time |-> 0]

\* Days from 1970-01-01 to the civil date y-m-d; linear in d, so a day
\* beyond the end of the month rolls over into the next month as MakeDay does.
DaysFromCivil(y, m, d) ==
    LET yy == IF m <= 2 THEN y - 1 ELSE y
        era == yy \div 400
        yoe == yy - era * 400
        mp == IF m > 2 THEN m - 3 ELSE m + 9
        doy == (153 * mp + 2) \div 5 + d - 1
        doe == yoe * 365 + yoe \div 4 - yoe \div 100 + doy
    IN  era * 146097 + doe - 719468

\* Indices of the date separators of a date string.
SepIdx(ds) == {i \in 1..Len(ds) : IsDateSep(ds[i])}

\* new Date(string) for a year-first string "Y<sep>M<sep>D": a Date whose
\* time value is NaN unless the month is 1..12 and the day 1..31 (the
\* runtime's date parser checks the fields against these ranges only).
NewDate(ds) ==
    LET i1 == Min(SepIdx(ds))
        i2 == Max(SepIdx(ds))
        y == DigitsToNat(Take(ds, i1 - 1))
        m == DigitsToNat(SubSeq(ds, i1 + 1, i2 - 1))
        d == DigitsToNat(Drop(ds, i2))
    IN  IF m \in 1..12 /\ d \in 1..31
        THEN [type |-> "Date", valid |-> TRUE, time |-> DaysFromCivil(y, m, d)]
        ELSE InvalidDate

\* new Date(date): a copy with the same time value.
CopyDate(date) == [type |-> "Date", valid |-> date.valid, time |-> date.time]

\* Length of the match of \d{4}[-/.]\d{1,2}[-/.]\d{1,2} ("YMD") or of
\* \d{1,2}[-/.]\d{1,2}[-/.]\d{4} ("DMY") at index i of s; 0 when none.
DateCoreLen(s, i, shape) ==
    LET r1 == DigitRun(s, i)
        r2 == DigitRun(s, i + r1 + 1)
        r3 == DigitRun(s, i + r1 + r2 + 2)
        seps == IsDateSep(CharAt(s, i + r1)) /\ IsDateSep(CharAt(s, i + r1 + r2 + 1))
    IN  IF shape = "YMD"
        THEN IF r1 = 4 /\ r2 \in 1..2 /\ r3 >= 1 /\ seps
             THEN r1 + r2 + 2 + (IF r3 >= 2 THEN 2 ELSE 1) ELSE 0
        ELSE IF r1 \in 1..2 /\ r2 \in 1..2 /\ r3 >= 4 /\ seps
             THEN r1 + r2 + 2 + 4 ELSE 0

\* Index just after ^\s*DATE\s*:\s* (flag i) in s, 0 when it does not match.
AfterLabel(s) ==
    LET i0 == 1 + SpaceRun(s, 1)
        up == [k \in 1..Len(s) |-> UpperChar(s[k])]
        i1 == i0 + 4 + SpaceRun(s, i0 + 4)
    IN  IF StartsWithAt(up, i0, <<"D", "A", "T", "E">>) /\ CharAt(s, i1) = ":"
        THEN i1 + 1 + SpaceRun(s, i1 + 1) ELSE 0

\* datePatterns, in the order the loop tries them.
datePatterns ==
    << [label |-> TRUE,  shape |-> "YMD"],
       [label |-> TRUE,  shape |-> "DMY"],
       [label |-> FALSE, shape |-> "YMD"],
       [label |-> FALSE, shape |-> "DMY"] >>

\* cleaned.match(pattern) with the unlabelled patterns matching after a
\* label as well.
MatchDatePatternAnywhere(pattern, s) ==
    LET start == IF AfterLabel(s) # 0 THEN AfterLabel(s)
                 ELSE IF pattern.label THEN 0 ELSE 1 + SpaceRun(s, 1)
        n == IF start = 0 THEN 0 ELSE DateCoreLen(s, start, pattern.shape)
    IN  IF n = 0 THEN [matched |-> FALSE, dateStr |-> <<>>, len |-> 0]
        ELSE [matched |-> TRUE,
              dateStr |-> SubSeq(s, start, start + n - 1),
              len |-> start + n - 1 + SpaceRun(s, start + n)]

\* cleaned.match(pattern): whether it matches, capture group 1 and the
\* length of the whole match (the trailing \s* included).
MatchDatePattern(pattern, s) ==
    LET start == IF pattern.label THEN AfterLabel(s) ELSE 1 + SpaceRun(s, 1)
        n == IF start = 0 THEN 0 ELSE DateCoreLen(s, start, pattern.shape)
    IN  IF n = 0 THEN [matched |-> FALSE, dateStr |-> <<>>, len |-> 0]
        ELSE [matched |-> TRUE,
              dateStr |-> SubSeq(s, start, start + n - 1),
              len |-> start + n - 1 + SpaceRun(s, start + n)]

\* DateFromMatch with a day-first string handed to new Date as it stands.
DateFromMatchUnswapped(dateStr, messageDate) ==
    IF DateCoreLen(dateStr, 1, "YMD") = Len(dateStr) THEN NewDate(dateStr)
    ELSE IF DateCoreLen(dateStr, 1, "DMY") = Len(dateStr) THEN NewDate(dateStr)
    ELSE messageDate

\* The two shape tests applied to the captured date string, and the Date
\* each branch assigns to messageDate.
DateFromMatch(dateStr, messageDate) ==
    IF DateCoreLen(dateStr, 1, "YMD") = Len(dateStr) THEN NewDate(dateStr)
    ELSE IF DateCoreLen(dateStr, 1, "DMY") = Len(dateStr)
    THEN LET i1 == Min(SepIdx(dateStr))
             i2 == Max(SepIdx(dateStr))
         IN  NewDate(Drop(dateStr, i2) \o <<"-">> \o SubSeq(dateStr, i1 + 1, i2 - 1)
                     \o <<"-">> \o Take(dateStr, i1 - 1))
    ELSE messageDate

\* The loop over datePatterns from pattern i on: messageDate keeps what a
\* matching pattern assigned, also when that date is invalid; the text is
\* stripped, and the loop left, only for a valid date.
RECURSIVE DateLoop(_, _, _)
DateLoop(i, cleaned, messageDate) ==
    IF i > Len(datePatterns)
    THEN [cleaned |-> cleaned, messageDate |-> messageDate, stripped |-> FALSE]
    ELSE LET mt == MatchDatePattern(datePatterns[i], cleaned)
             md == DateFromMatch(mt.dateStr, messageDate)
         IN  IF ~mt.matched THEN DateLoop(i + 1, cleaned, messageDate)
             ELSE IF md.type = "Date" /\ md.valid
             THEN [cleaned |-> trim(Drop(cleaned, mt.len)), messageDate |-> md,
                   stripped |-> TRUE]
             ELSE DateLoop(i + 1, cleaned, md)

----------------------------------------------------------------------------
(* parseMessage *)

SpaceDashSpace == <<" ", "-", " ">>

NewLine == <<"\n">>

\* Whether t matches \d+(?:[.,]\d+)? as a whole.
IsNumeral(t) ==
    LET n1 == DigitRun(t, 1)
    IN  /\ n1 >= 1
        /\ \/ n1 = Len(t)
           \/ /\ CharAt(t, n1 + 1) \in {".", ","}
              /\ DigitRun(t, n1 + 2) >= 1
              /\ n1 + 1 + DigitRun(t, n1 + 2) = Len(t)

\* line.match(/^(.+)\s+(\d+(?:[.,]\d+)?)$/): group 1 is greedy, so it is
\* the longest prefix (without line terminators) that leaves white space
\* and a numeral up to the end of the line.
SpaceFormMatch(line) ==
    LET ok(i) == /\ \A k \in 1..i : line[k] \notin {"\n", "\r"}
                 /\ SpaceRun(line, i + 1) >= 1
                 /\ IsNumeral(Drop(line, i + SpaceRun(line, i + 1)))
        cand == {i \in 1..Len(line) : ok(i)}
    IN  IF cand = {} THEN [matched |-> FALSE, key |-> <<>>, value |-> <<>>]
        ELSE LET i == Max(cand)
             IN  [matched |-> TRUE, key |-> Take(line, i),
                  value |-> Drop(line, i + SpaceRun(line, i + 1))]

NoError == [text |-> "", line |-> <<>>]

\* CheckValue with the key case-folded on the way out.
CheckValueFolded(line, key, value) ==
    IF isNaN(value)
    THEN [ok |-> FALSE, key |-> <<>>, value |-> NaN,
          error |-> [text |-> "Invalid numeric value in line", line |-> line]]
    ELSE [ok |-> TRUE, key |-> [k \in 1..Len(key) |-> UpperChar(key[k])],
          value |-> value, error |-> NoError]

\* The isNaN test on the value parseFloat returned for a line.
CheckValue(line, key, value) ==
    IF isNaN(value)
    THEN [ok |-> FALSE, key |-> <<>>, value |-> NaN,
          error |-> [text |-> "Invalid numeric value in line", line |-> line]]
    ELSE [ok |-> TRUE, key |-> key, value |-> value, error |-> NoError]

\* The body of the lines.map callback up to the isNaN test: the key and
\* the value of one line, or the Error it throws.
ParseLine(line) ==
    LET dash == includes(line, SpaceDashSpace)
        raw == split(line, SpaceDashSpace)
        parts == [k \in 1..Len(raw) |-> trim(raw[k])]
        m == SpaceFormMatch(line)
        formatOk == IF dash THEN Len(parts) = 2 ELSE m.matched
        key == IF dash THEN parts[1] ELSE trim(m.key)
        valueStr == IF dash THEN parts[2] ELSE m.value
    IN  IF ~formatOk
        THEN [ok |-> FALSE, key |-> <<>>, value |-> NaN,
              error |-> [text |-> "Invalid format in line", line |-> line]]
        ELSE CheckValue(line, key, parseFloat(replaceFirst(valueStr, ",", ".")))

\* MakeRecord without the test of messageDate: new Date(undefined) is an
\* Invalid Date.
MakeRecordAlwaysStamped(key, value, messageDate) ==
    [key |-> key, value |-> value,
     timestamp |-> IF messageDate.type = "Date" THEN CopyDate(messageDate)
                   ELSE InvalidDate]

\* MakeRecord with the clock read in the parser when there is no date.
MakeRecordClock(key, value, messageDate) ==
    IF messageDate.type = "Date"
    THEN [key |-> key, value |-> value, timestamp |-> CopyDate(messageDate)]
    ELSE [key |-> key, value |-> value,
          timestamp |-> [type |-> "Date", valid |-> TRUE, time |-> now]]

\* The object the callback returns: messageDate is truthy whenever it is a
\* Date object, valid or not.
MakeRecord(key, value, messageDate) ==
    IF messageDate.type = "Date"
    THEN [key |-> key, value |-> value, timestamp |-> CopyDate(messageDate)]
    ELSE [key |-> key, value |-> value]

\* cleaned.split('\n').map(trim) without the filter of empty lines.
SplitLinesKeepEmpty(cleaned) ==
    LET raw == split(cleaned, NewLine)
    IN  [k \in 1..Len(raw) |-> trim(raw[k])]

\* cleaned.split('\n').map(trim).filter(nonempty)
SplitLines(cleaned) ==
    LET raw == split(cleaned, NewLine)
        trimmed == [k \in 1..Len(raw) |-> trim(raw[k])]
        nonEmpty(l) == Len(l) > 0
    IN  SelectSeq(trimmed, nonEmpty)

RECURSIVE MapLines(_, _, _, _)
\* MapCallback with an Error that does not quote the line.
MapCallbackNoLine(r, lines, i, acc, messageDate) ==
    IF ~r.ok
    THEN [ok |-> FALSE, records |-> <<>>,
          error |-> [text |-> r.error.text, line |-> <<>>]]
    ELSE MapLines(lines, i + 1,
                  Append(acc, MakeRecord(r.key, r.value, messageDate)),
                  messageDate)

\* The end of the lines.map callback for line i, r being what ParseLine
\* made of the line: throw its Error, or return the record and go on.
MapCallback(r, lines, i, acc, messageDate) ==
    IF ~r.ok THEN [ok |-> FALSE, records |-> <<>>, error |-> r.error]
    ELSE MapLines(lines, i + 1,
                  Append(acc, MakeRecord(r.key, r.value, messageDate)),
                  messageDate)

\* MapLines with the date applied to the line under the header only.
RECURSIVE MapLinesFirstOnly(_, _, _, _)
MapLinesFirstOnly(lines, i, acc, messageDate) ==
    IF i > Len(lines) THEN [ok |-> TRUE, records |-> acc, error |-> NoError]
    ELSE LET r == ParseLine(lines[i])
         IN  IF ~r.ok THEN [ok |-> FALSE, records |-> <<>>, error |-> r.error]
             ELSE MapLinesFirstOnly(lines, i + 1,
                      Append(acc, MakeRecord(r.key, r.value,
                                 IF i = 1 THEN messageDate ELSE Undefined)),
                      messageDate)

\* MapLines with a line that does not parse skipped instead of thrown on.
RECURSIVE MapLinesLenient(_, _, _, _)
MapLinesLenient(lines, i, acc, messageDate) ==
    IF i > Len(lines) THEN [ok |-> TRUE, records |-> acc, error |-> NoError]
    ELSE LET r == ParseLine(lines[i])
         IN  MapLinesLenient(lines, i + 1,
                 IF r.ok THEN Append(acc, MakeRecord(r.key, r.value, messageDate))
                 ELSE acc,
                 messageDate)

\* lines.map(...) from line i on: the first line that throws ends the map
\* and the records made so far are lost with it.
MapLines(lines, i, acc, messageDate) ==
    IF i > Len(lines) THEN [ok |-> TRUE, records |-> acc, error |-> NoError]
    ELSE MapCallback(ParseLine(lines[i]), lines, i, acc, messageDate)

\* The text and the message date after the date loop.
ExtractDate(message) == DateLoop(1, trim(message), Undefined)

\* The lines of the cleaned text mapped to records, d being what the date
\* loop left.
MapCleaned(d) == MapLines(SplitLines(d.cleaned), 1, <<>>, d.messageDate)

parseMessage(message) == MapCleaned(ExtractDate(message))

\* The loop of parseMessage over the patterns in another order.
RECURSIVE DateLoopIn(_, _, _, _)
DateLoopIn(patterns, i, cleaned, messageDate) ==
    IF i > Len(patterns)
    THEN [cleaned |-> cleaned, messageDate |-> messageDate, stripped |-> FALSE]
    ELSE LET mt == MatchDatePattern(patterns[i], cleaned)
             md == DateFromMatch(mt.dateStr, messageDate)
         IN  IF ~mt.matched THEN DateLoopIn(patterns, i + 1, cleaned, messageDate)
             ELSE IF md.type = "Date" /\ md.valid
             THEN [cleaned |-> trim(Drop(cleaned, mt.len)), messageDate |-> md,
                   stripped |-> TRUE]
             ELSE DateLoopIn(patterns, i + 1, cleaned, md)

\* parseMessage with the patterns in another order.
parseMessageIn(patterns, message) ==
    MapCleaned(DateLoopIn(patterns, 1, trim(message), Undefined))

----------------------------------------------------------------------------
(* DataService *)

\* Property names every object inherits from Object.prototype: reading one
\* of them from a series object that has no own property of that name
\* yields the inherited member instead of undefined.
ObjectPrototypeKeys ==
    { <<"c", "o", "n", "s", "t", "r", "u", "c", "t", "o", "r">>,
      <<"t", "o", "S", "t", "r", "i", "n", "g">>,
      <<"v", "a", "l", "u", "e", "O", "f">>,
      <<"_", "_", "p", "r", "o", "t", "o", "_", "_">>,
      <<"h", "a", "s", "O", "w", "n", "P", "r", "o", "p", "e", "r", "t", "y">>,
      <<"i", "s", "P", "r", "o", "t", "o", "t", "y", "p", "e", "O", "f">>,
      <<"t", "o", "L", "o", "c", "a", "l", "e", "S", "t", "r", "i", "n", "g">> }

\* Index of the series of key in a user's data set, 0 when it has none.
KeyIndex(dataStore, key) ==
    LET idx == {i \in 1..Len(dataStore) : dataStore[i].key = key}
    IN  IF idx = {} THEN 0 ELSE Min(idx)

\* The forEach of addData from item i on.  dataStore[item.key] is truthy
\* for an own series and for an inherited member; in the second case
\* .values is undefined and push throws a TypeError, which leaves the
\* points pushed so far in the store.
RECURSIVE PushItems(_, _, _, _, _)
PushItems(dataStore, data, i, defaultTimestamp, userId) ==
    IF i > Len(data) THEN [dataStore |-> dataStore, threw |-> FALSE]
    ELSE LET item == data[i]
             own == KeyIndex(dataStore, item.key)
             timestamp == IF "timestamp" \in DOMAIN item THEN item.timestamp
                          ELSE defaultTimestamp
             init == IF own = 0
                     THEN Append(dataStore, [key |-> item.key, values |-> <<>>,
                                             timestamps |-> <<>>, userIds |-> <<>>])
                     ELSE dataStore
             k == KeyIndex(init, item.key)
             pushed == [init EXCEPT
                           ![k].values = Append(@, item.value),
                           ![k].timestamps = Append(@, timestamp),
                           ![k].userIds = Append(@, userId)]
         IN  IF own = 0 /\ item.key \in ObjectPrototypeKeys
             THEN [dataStore |-> dataStore, threw |-> TRUE]
             ELSE PushItems(pushed, data, i + 1, defaultTimestamp, userId)

DefaultPreferences ==
    [chartGroups |-> <<>>, defaultView |-> "individual", favoriteMetrics |-> <<>>]

\* getUserPreferences: the preferences map after the call.
getUserPreferences(prefs, userId) ==
    IF userId \in DOMAIN prefs THEN prefs
    ELSE [u \in DOMAIN prefs \cup {userId} |->
             IF u = userId THEN DefaultPreferences ELSE prefs[u]]

\* The keys of a sequence in order of first occurrence (Map insertion order).
RECURSIVE Distinct(_)
Distinct(s) ==
    IF s = <<>> THEN <<>>
    ELSE LET front == Distinct(Take(s, Len(s) - 1))
             last == s[Len(s)]
         IN  IF \E i \in 1..Len(front) : front[i] = last THEN front
             ELSE Append(front, last)

Count(s, x) == Cardinality({i \in 1..Len(s) : s[i] = x})

\* Stable sort of keys by count, greatest first, from count c down.
RECURSIVE ByCountFrom(_, _, _)
ByCountFrom(keys, all, c) ==
    IF c < 1 THEN <<>>
    ELSE LET has(k) == Count(all, k) = c
         IN  SelectSeq(keys, has) \o ByCountFrom(keys, all, c - 1)

FavoriteLimit == 5

\* updateFavoriteMetrics: the preferences map after the call.
updateFavoriteMetrics(prefs, userId, keys) ==
    LET p == getUserPreferences(prefs, userId)
        all == p[userId].favoriteMetrics \o keys
        sorted == ByCountFrom(Distinct(all), all, Len(all))
        top == Take(sorted, IF Len(sorted) < FavoriteLimit THEN Len(sorted)
                            ELSE FavoriteLimit)
    IN  [p EXCEPT ![userId].favoriteMetrics = top]

JsonNull == [type |-> "null"]

\* JSON.stringify of a timestamp.  For a Date, toJSON runs before the
\* replacer, which therefore sees the ISO string (null for an Invalid
\* Date), never a Date, and writes no { __type: 'Date' } object.  A
\* timestamp that is a string or null already is written as it is.
DateToJSON(date) ==
    IF date.type # "Date" THEN date
    ELSE IF date.valid THEN [type |-> "string", iso |-> date.time]
    ELSE JsonNull

\* JSON.stringify of a number: null unless it is finite.
NumberToJSON(v) == IF v.cls = "finite" THEN v ELSE JsonNull

\* The text saveData writes for the data store.
StringifyStore(store) ==
    [u \in DOMAIN store |->
        [k \in 1..Len(store[u]) |->
            [key |-> store[u][k].key,
             values |-> [i \in 1..Len(store[u][k].values) |->
                            NumberToJSON(store[u][k].values[i])],
             timestamps |-> [i \in 1..Len(store[u][k].timestamps) |->
                                DateToJSON(store[u][k].timestamps[i])],
             userIds |-> store[u][k].userIds]]]

NoFile == [exists |-> FALSE]

File(content) == [exists |-> TRUE, content |-> content]

\* The reviver of loadData: an object whose __type is 'Date' becomes
\* new Date(value.value), every other value stays what JSON.parse made of
\* it.
Reviver(value) ==
    IF value.type = "object" /\ value.tag = "Date"
    THEN [type |-> "Date", valid |-> TRUE, time |-> value.value]
    ELSE value

\* JSON.parse of the data file with the reviver.
ParseStore(content) ==
    [u \in DOMAIN content |->
        [k \in 1..Len(content[u]) |->
            [key |-> content[u][k].key,
             values |-> content[u][k].values,
             timestamps |-> [i \in 1..Len(content[u][k].timestamps) |->
                                Reviver(content[u][k].timestamps[i])],
             userIds |-> content[u][k].userIds]]]

\* loadData in the constructor: the store of a new DataService.
loadData(file) == IF file.exists THEN ParseStore(file.content) ELSE <<>>

\* loadData: the preferences of a new DataService, 'combined' views
\* migrated to 'individual'.
loadPreferences(file) ==
    IF ~file.exists THEN <<>>
    ELSE [u \in DOMAIN file.content |->
             IF file.content[u].defaultView = "combined"
             THEN [file.content[u] EXCEPT !.defaultView = "individual"]
             ELSE file.content[u]]

\* addData pushing the id of another user into userIds.
addDataOtherId(store, prefs, data, userId, clock) ==
    LET defaultTimestamp == [type |-> "Date", valid |-> TRUE, time |-> clock]
        old == IF userId \in DOMAIN store THEN store[userId] ELSE <<>>
        r == PushItems(old, data, 1, defaultTimestamp, userId + 1)
        store2 == [u \in DOMAIN store \cup {userId} |->
                      IF u = userId THEN r.dataStore ELSE store[u]]
        keys == [i \in 1..Len(data) |-> data[i].key]
        prefs2 == updateFavoriteMetrics(prefs, userId, keys)
    IN  IF r.threw
        THEN [store |-> store2, prefs |-> prefs, saved |-> FALSE, threw |-> TRUE]
        ELSE [store |-> store2, prefs |-> prefs2, saved |-> TRUE, threw |-> FALSE]

\* addData: the service after the call, and whether it threw.
addData(store, prefs, data, userId, clock) ==
    LET defaultTimestamp == [type |-> "Date", valid |-> TRUE, time |-> clock]
        old == IF userId \in DOMAIN store THEN store[userId] ELSE <<>>
        r == PushItems(old, data, 1, defaultTimestamp, userId)
        store2 == [u \in DOMAIN store \cup {userId} |->
                      IF u = userId THEN r.dataStore ELSE store[u]]
        keys == [i \in 1..Len(data) |-> data[i].key]
        prefs2 == updateFavoriteMetrics(prefs, userId, keys)
    IN  IF r.threw
        THEN [store |-> store2, prefs |-> prefs, saved |-> FALSE, threw |-> TRUE]
        ELSE [store |-> store2, prefs |-> prefs2, saved |-> TRUE, threw |-> FALSE]

\* getUserData before the sort: the points series by series.
RECURSIVE PointsOf(_)
PointsOf(dataStore) ==
    IF dataStore = <<>> THEN <<>>
    ELSE LET e == Head(dataStore)
         IN  [i \in 1..Len(e.values) |->
                 [key |-> e.key, value |-> e.values[i],
                  timestamp |-> e.timestamps[i], userId |-> e.userIds[i]]]
             \o PointsOf(Tail(dataStore))

\* The points stored for a user, unsorted.
UserPoints(store, userId) ==
    IF userId \in DOMAIN store THEN PointsOf(store[userId]) ELSE <<>>

\* Number of points in the store.
RECURSIVE SumPoints(_, _)
SumPoints(store, users) ==
    IF users = {} THEN 0
    ELSE LET u == CHOOSE x \in users : TRUE
         IN  Len(PointsOf(store[u])) + SumPoints(store, users \ {u})

TotalPoints(store) == SumPoints(store, DOMAIN store)

\* getUserData throws a TypeError: the comparator of its sort calls
\* getTime on a timestamp that is no Date.  sort calls the comparator when
\* the array has two points or more.
getUserDataThrows(store, userId) ==
    LET points == UserPoints(store, userId)
    IN  /\ Len(points) >= 2
        /\ \E i \in 1..Len(points) : points[i].timestamp.type # "Date"

\* The comparator of getUserData's sort is negative: a.timestamp.getTime()
\* - b.timestamp.getTime() < 0.  With an Invalid Date the difference is
\* NaN, which is not negative.
TimeBefore(a, b) ==
    /\ a.timestamp.valid /\ b.timestamp.valid
    /\ a.timestamp.time < b.timestamp.time

\* Array.prototype.sort with that comparator on points whose timestamps
\* are all valid: a stable sort, so x goes after every point that is not
\* later than it.
RECURSIVE SortByTime(_)
SortByTime(points) ==
    IF points = <<>> THEN <<>>
    ELSE LET front == SortByTime(Take(points, Len(points) - 1))
             x == points[Len(points)]
             later == {i \in 1..Len(front) : TimeBefore(x, front[i])}
             at == IF later = {} THEN Len(front) + 1 ELSE Min(later)
         IN  Take(front, at - 1) \o <<x>> \o Drop(front, at - 1)

\* The orders of a sequence.
Reorderings(s) ==
    {[i \in 1..Len(s) |-> s[p[i]]] : p \in Permutations(1..Len(s))}

\* getUserData: the arrays the call can return.  When some timestamp is an
\* Invalid Date the comparator is not a consistent comparator and the
\* order sort leaves is implementation-defined.
getUserData(store, userId) ==
    LET points == UserPoints(store, userId)
    IN  IF \A i \in 1..Len(points) : points[i].timestamp.valid
        THEN {SortByTime(points)}
        ELSE Reorderings(points)

\* The code units of a key as numbers, for Array.prototype.sort without a
\* comparator, which orders strings by code unit.
CodeUnit(c) ==
    CASE c = "2" -> 50 [] c = "C" -> 67 [] c = "W" -> 87 [] c = "c" -> 99
      [] OTHER -> 0

\* key a sorts before key b
KeyBefore(a, b) ==
    \E i \in 1..(Len(a) + 1) :
        /\ \A j \in 1..(i - 1) : j <= Len(b) /\ a[j] = b[j]
        /\ i <= Len(b)
        /\ i > Len(a) \/ CodeUnit(a[i]) < CodeUnit(b[i])

\* getUserKeys: Object.keys of the user's data set, sorted.
getUserKeys(store, userId) ==
    LET ds == IF userId \in DOMAIN store THEN store[userId] ELSE <<>>
        keys == {ds[k].key : k \in 1..Len(ds)}
    IN  CHOOSE s \in [1..Cardinality(keys) -> keys] :
            \A i, j \in 1..Cardinality(keys) : i < j => KeyBefore(s[i], s[j])

\* getUserLatestData: the last value of each series that has one.
getUserLatestData(store, userId) ==
    LET ds == IF userId \in DOMAIN store THEN store[userId] ELSE <<>>
        has == {k \in 1..Len(ds) : Len(ds[k].values) > 0}
    IN  {[key |-> ds[k].key, value |-> ds[k].values[Len(ds[k].values)]] : k \in has}

\* clearUserData emptying the user's series and keeping their keys.
clearUserDataValues(store, userId) ==
    [u \in DOMAIN store |->
        IF u # userId THEN store[u]
        ELSE [k \in 1..Len(store[u]) |->
                 [key |-> store[u][k].key, values |-> <<>>,
                  timestamps |-> <<>>, userIds |-> <<>>]]]

\* clearUserData deleting every user's data set.
clearUserDataOfAll(store, userId) == <<>>

\* clearUserData: the store after the call.
clearUserData(store, userId) == [u \in DOMAIN store \ {userId} |-> store[u]]

----------------------------------------------------------------------------
(* Server: chart requests *)

\* getUserIdFromToken finds a user for the token.
TokenKnown(tokens, token) == \E u \in DOMAIN tokens : tokens[u] = token

\* getUserIdFromToken, for a token that some user holds.
getUserIdFromToken(tokens, token) == CHOOSE u \in DOMAIN tokens : tokens[u] = token

\* generateTimelineChart: the image it renders, the chart or the
\* generateErrorChart placeholder when no point is left after the filter.
generateTimelineChart(data, hiddenKeys) ==
    LET visible(p) == p.key \notin hiddenKeys
        filteredData == IF hiddenKeys # {} THEN SelectSeq(data, visible) ELSE data
    IN  IF Len(filteredData) = 0 THEN "placeholder" ELSE "chart"

\* [...new Set(data.map(point => point.key))].sort(): the keys of the
\* points, each once, ordered by code unit.
allKeys(data) ==
    LET keys == {data[i].key : i \in 1..Len(data)}
    IN  CHOOSE s \in [1..Cardinality(keys) -> keys] :
            \A i, j \in 1..Cardinality(keys) : i < j => KeyBefore(s[i], s[j])

\* Array.prototype.indexOf, -1 when x is not an element.
indexOf(s, x) ==
    LET at == {i \in 1..Len(s) : s[i] = x}
    IN  IF at = {} THEN -1 ELSE Min(at) - 1

\* The hue of the line of a key: (index * 137) % 360 on the index of the
\* key among all keys of the data, the hidden ones included.
generateColor(data, key) == (indexOf(allKeys(data), key) * 137) % 360

\* The datasets of generateTimelineChart: one line per key that has a point
\* left after the filter, with its hue.
TimelineDatasets(data, hiddenKeys) ==
    LET visible(p) == p.key \notin hiddenKeys
        filteredData == IF hiddenKeys # {} THEN SelectSeq(data, visible) ELSE data
    IN  {[label |-> filteredData[i].key,
          hue |-> generateColor(data, filteredData[i].key)] :
            i \in 1..Len(filteredData)}

\* handleChartRequest: the status and the body of the response.
handleChartRequest(store, tokens, token, hiddenKeys) ==
    IF ~TokenKnown(tokens, token)
    THEN [status |-> 403, body |-> "Invalid token"]
    ELSE LET data == UserPoints(store, getUserIdFromToken(tokens, token))
         IN  IF Len(data) = 0
             THEN [status |-> 404, body |-> "No data available"]
             ELSE [status |-> 200, body |-> generateTimelineChart(data, hiddenKeys)]

----------------------------------------------------------------------------
(* Server: routes *)

\* The middleware of setup, which runs before every route: the host of the
\* X-Forwarded-Host or Host header replaces this.host when this.host does
\* not contain it; useHostHeaderWhenAvailable is true as index.ts
\* constructs the server.
middleware(current, protocol, header) ==
    IF header # <<>> /\ ~includes(current, header)
    THEN protocol \o <<":", "/", "/">> \o header
    ELSE current

\* getUserGroups: the groups of a user, none when the user has no entry.
getUserGroups(groups, userId) ==
    IF userId \in DOMAIN groups THEN groups[userId] ELSE <<>>

\* createGroup: the groups after the call.
createGroup(groups, userId, groupId, groupName, metrics) ==
    [u \in DOMAIN groups \cup {userId} |->
        IF u # userId THEN groups[u]
        ELSE [g \in DOMAIN getUserGroups(groups, u) \cup {groupId} |->
                 IF g = groupId THEN [name |-> groupName, metrics |-> metrics]
                 ELSE groups[u][g]]]

\* deleteGroup: the groups after the call.
deleteGroup(groups, userId, groupId) ==
    IF userId \notin DOMAIN groups THEN groups
    ELSE [groups EXCEPT ![userId] =
             [g \in DOMAIN groups[userId] \ {groupId} |-> groups[userId][g]]]

\* deleteDataPoint(userId, key, timestamp): the series of the user without
\* the first point of that key and timestamp; a key left without points is
\* removed.
RemovePoint(dataStore, key, time) ==
    LET k == KeyIndex(dataStore, key)
        at == IF k = 0 THEN {}
              ELSE {i \in 1..Len(dataStore[k].timestamps) :
                       /\ dataStore[k].timestamps[i].type = "Date"
                       /\ dataStore[k].timestamps[i].valid
                       /\ dataStore[k].timestamps[i].time = time}
        i == Min(at)
        without(s) == Take(s, i - 1) \o Drop(s, i)
        cut == [dataStore EXCEPT ![k].values = without(@),
                                 ![k].timestamps = without(@),
                                 ![k].userIds = without(@)]
        kept(e) == Len(e.values) > 0
    IN  IF at = {} THEN [found |-> FALSE, dataStore |-> dataStore]
        ELSE [found |-> TRUE, dataStore |-> SelectSeq(cut, kept)]

\* deleteDataPoint: the store after the call, and whether a point went.
deleteDataPoint(store, userId, key, time) ==
    IF userId \notin DOMAIN store THEN [found |-> FALSE, store |-> store]
    ELSE LET r == RemovePoint(store[userId], key, time)
         IN  [found |-> r.found,
              store |-> [store EXCEPT ![userId] = r.dataStore]]

\* The answer of a route that changes nothing.
Answer(status, body, store, groups) ==
    [status |-> status, body |-> body, store |-> store, groups |-> groups,
     saved |-> FALSE]

\* The points of the data that a chart draws for the keys.
ChartLines(data, keys) ==
    LET drawn(p) == p.key \in keys
        filteredData == SelectSeq(data, drawn)
    IN  IF Len(filteredData) = 0 THEN <<"placeholder">>
        ELSE <<"chart", filteredData,
               {[label |-> k, hue |-> generateColor(data, k)] :
                   k \in {filteredData[i].key : i \in 1..Len(filteredData)}}>>

\* The routes that read the points of the user: what they answer for the
\* array getUserData returned.
ReadRoute(req, userId, data, store, groups) ==
    LET keys == {data[i].key : i \in 1..Len(data)}
        mine == getUserGroups(groups, userId)
    IN  CASE req.route = "metrics" -> Answer(200, allKeys(data), store, groups)
          [] req.route = "view" ->
                Answer(200, <<allKeys(data), mine>>, store, groups)
          [] req.route = "groupChart" /\ req.groupId \notin DOMAIN mine ->
                Answer(404, "Group not found", store, groups)
          [] Len(data) = 0 -> Answer(404, "No data available", store, groups)
          [] req.route = "chart" ->
                Answer(200, ChartLines(data, keys \ req.hidden), store, groups)
          [] req.route = "metricChart" ->
                Answer(200, ChartLines(data, {req.key}), store, groups)
          [] req.route = "groupChart" ->
                Answer(200, <<mine[req.groupId].name,
                              ChartLines(data, {mine[req.groupId].metrics[i] :
                                  i \in 1..Len(mine[req.groupId].metrics)})>>,
                       store, groups)
          [] req.route = "data" ->
                IF \E i \in 1..Len(data) : ~data[i].timestamp.valid
                THEN Answer(500, "Error fetching data", store, groups)
                ELSE Answer(200, data, store, groups)

ReadRoutes == {"metrics", "view", "groupChart", "chart", "metricChart", "data"}

\* A route for a token that getUserIdFromToken found the user of.
Route(req, userId, store, groups, newId) ==
    CASE req.route \in ReadRoutes ->
            {ReadRoute(req, userId, data, store, groups) :
                data \in getUserData(store, userId)}
      [] req.route = "listGroups" ->
            {Answer(200, getUserGroups(groups, userId), store, groups)}
      [] req.route = "createGroup" ->
            IF req.groupName = <<>> \/ Len(req.metrics) = 0
            THEN {Answer(400, "Invalid request", store, groups)}
            ELSE {Answer(200, <<newId, req.groupName, req.metrics>>, store,
                         createGroup(groups, userId, newId, req.groupName,
                                     req.metrics))}
      [] req.route = "deleteGroup" ->
            IF req.groupId \in DOMAIN getUserGroups(groups, userId)
            THEN {Answer(200, "Group deleted successfully", store,
                         deleteGroup(groups, userId, req.groupId))}
            ELSE {Answer(404, "Group not found", store, groups)}
      [] req.route = "deleteAll" ->
            {[status |-> 200, body |-> "All data deleted successfully",
              store |-> clearUserData(store, userId), groups |-> groups,
              saved |-> userId \in DOMAIN store]}
      [] req.route = "deletePoint" ->
            LET d == deleteDataPoint(store, userId, req.key, req.time)
            IN  IF d.found
                THEN {[status |-> 200, body |-> "Data point deleted successfully",
                       store |-> d.store, groups |-> groups, saved |-> TRUE]}
                ELSE {Answer(404, "Data point not found", store, groups)}

\* A route that ignores the token and serves the user of the first token.
HandleAnyToken(req, store, groups, tokens, newId) ==
    IF DOMAIN tokens = {} THEN {Answer(403, "Invalid token", store, groups)}
    ELSE Route(req, CHOOSE u \in DOMAIN tokens : TRUE, store, groups, newId)

\* Every route starts with getUserIdFromToken and answers 403 when it
\* finds no user.
Handle(req, store, groups, tokens, newId) ==
    IF ~TokenKnown(tokens, req.token)
    THEN {Answer(403, "Invalid token", store, groups)}
    ELSE Route(req, getUserIdFromToken(tokens, req.token), store, groups, newId)

----------------------------------------------------------------------------
(* The delete scene *)

\* String.prototype.toLowerCase, for the letters of the replies.
LowerChar(c) ==
    CASE c = "A" -> "a" [] c = "L" -> "l" [] c = "C" -> "c" [] c = "N" -> "n"
      [] c = "E" -> "e" [] OTHER -> c

toLowerCase(s) == [i \in 1..Len(s) |-> LowerChar(s[i])]

\* parseInt(text, 10): white space, a sign and the digits that follow are
\* read and the rest of the text is ignored; NaN when no digit follows.
parseInt(text) ==
    LET s == trimStart(text)
        signed == Len(s) > 0 /\ s[1] \in {"+", "-"}
        from == IF signed THEN 2 ELSE 1
        n == DigitRun(s, from)
        abs == DigitsToNat(SubSeq(s, from, from + n - 1))
    IN  IF n = 0 THEN [nan |-> TRUE, n |-> 0]
        ELSE [nan |-> FALSE, n |-> IF signed /\ s[1] = "-" THEN 0 - abs ELSE abs]

\* getUserLatestDataPoints: the latest point of each key of the user.
getUserLatestDataPoints(store, userId) ==
    LET ds == IF userId \in DOMAIN store THEN store[userId] ELSE <<>>
        has(e) == Len(e.values) > 0
        series == SelectSeq(ds, has)
    IN  [k \in 1..Len(series) |->
            [key |-> series[k].key,
             value |-> series[k].values[Len(series[k].values)],
             timestamp |-> series[k].timestamps[Len(series[k].timestamps)]]]

\* latestPoints.sort((a, b) => a.key.localeCompare(b.key)), for keys that
\* localeCompare orders as their code units do.
SortByKey(points) ==
    CHOOSE s \in Reorderings(points) :
        \A i, j \in 1..Len(s) : i < j => ~KeyBefore(s[j].key, s[i].key)

----------------------------------------------------------------------------
(* Inputs *)

Users == {1, 2}

Tokens == {"t1", "t2"}

\* Bound on the number of fragments of a composed message.
MaxFrags == 2

\* Bound on the number of points the store holds, all users together.
MaxPoints == 2

\* Bound on the number of clock ticks.
MaxTicks == 1

\* The clock at start-up, in days since 1970-01-01 (2023-05-23).
StartClock == DaysFromCivil(2023, 5, 23)

\* Message starts: none, valid date headers of each pattern, date-shaped
\* prefixes that are no calendar date.
Headers ==
    { <<>>,
      <<"D", "A", "T", "E", ":", " ", "2", "0", "2", "3", "-", "0", "5", "-", "1", "5", "\n">>,
      <<"d", "a", "t", "e", ":", "1", "5", ".", "0", "5", ".", "2", "0", "2", "3", "\n">>,
      <<"2", "0", "2", "3", "-", "0", "7", "-", "2", "0", "\n">>,
      <<"1", "0", ".", "0", "6", ".", "2", "0", "2", "3", " ">>,
      <<"D", "A", "T", "E", ":", " ", "2", "0", "2", "3", "-", "1", "3", "-", "4", "5", "\n">>,
      <<"2", "0", "2", "3", "-", "1", "3", "-", "4", "5", " ">>,
      <<"4", "5", ".", "1", "3", ".", "2", "0", "2", "3", " ">> }

\* Fragments of composed messages.
Fragments ==
    { <<"W", " ", "7", ",", "5">>,
      <<"W", " ", "-", " ", "7", ".", "5">>,
      <<"C", " ", "1", "1", "7">>,
      <<"W", "-", "7", ",", "5">>,
      <<"\"", "W", "\"", " ", "-", " ", "7", ",", "5">>,
      <<"a", "-", "b", " ", "-", " ", "5">>,
      <<"a", " ", "-", " ", "b", " ", "-", " ", "5">>,
      <<"W", " ", "-", " ", "-", "5">>,
      <<"b", "a", "d">>,
      <<>>,
      <<"\"", "t", "\"", " ", "-", " ", "2", "5", ",", " ", "\"", "h", "\"", " ", "-", " ", "6", "0">> }

\* One-line messages whose value text is more than a numeral.
ValueMessages ==
    { <<"W", " ", "-", " ", "7", "k", "g">>,
      <<"W", " ", "-", " ", "I", "n", "f", "i", "n", "i", "t", "y">>,
      <<"W", " ", "-", " ", "1", ",", "2", ",", "3">> }

\* One-line messages with no key text before the number.
KeylessMessages ==
    { <<"5">>,
      <<"7", ",", "5">>,
      <<" ", "-", " ", "5">> }

\* The date header family: label, date shape, separator, date, end.
DateLabels ==
    { <<>>,
      <<"D", "A", "T", "E", ":", " ">>,
      <<"d", "a", "t", "e", ":">>,
      <<"D", "a", "t", "e", " ", ":", " ", " ">> }

DateSeps == {"-", "/", "."}

HeaderDates ==
    { [y |-> <<"2", "0", "2", "3">>, m |-> <<"0", "5">>, d |-> <<"1", "5">>],
      [y |-> <<"2", "0", "2", "4">>, m |-> <<"2">>, d |-> <<"2", "9">>] }

HeaderEnds == {<<"\n">>, <<" ">>}

\* The text under the header of a message of the family.
HeaderBody == <<"W", " ", "7", ",", "5", "\n", "C", " ", "1", "1", "7">>

DateText(shape, sep, dt) ==
    IF shape = "YMD" THEN dt.y \o <<sep>> \o dt.m \o <<sep>> \o dt.d
    ELSE dt.d \o <<sep>> \o dt.m \o <<sep>> \o dt.y

HeaderMessage(label, shape, sep, dt, end) ==
    label \o DateText(shape, sep, dt) \o end \o HeaderBody

HeaderMessages ==
    {HeaderMessage(label, shape, sep, dt, end) :
        label \in DateLabels, shape \in {"YMD", "DMY"}, sep \in DateSeps,
        dt \in HeaderDates, end \in HeaderEnds}

\* Keys of the decimal-separator family.
PlainKeys ==
    { <<"W">>,
      <<"a", "-", "b">>,
      <<"L", "o", "w", " ", "b">> }

IntParts == {<<"7">>, <<"1", "0">>}

FracParts == {<<"5">>, <<"2", "5">>}

KeyValueSeps == {<<" ">>, SpaceDashSpace, <<" ", " ", "-", " ">>}

\* key, separator, integer part, decimal separator, fraction
Decimal(K, sep, a, dec, b) == K \o sep \o a \o <<dec>> \o b

DecimalMessages ==
    {Decimal(K, sep, a, dec, b) :
        K \in PlainKeys, sep \in KeyValueSeps, a \in IntParts,
        dec \in {",", "."}, b \in FracParts}

RECURSIVE Join(_, _)
Join(fs, sep) ==
    IF fs = <<>> THEN <<>>
    ELSE IF Len(fs) = 1 THEN fs[1]
    ELSE fs[1] \o sep \o Join(Tail(fs), sep)

Compose(h, fs) == h \o Join(fs, NewLine)

ComposedMessages ==
    {Compose(h, fs) :
        h \in Headers, fs \in UNION {[1..n -> Fragments] : n \in 0..MaxFrags}}

\* The messages the parser is applied to.
Messages ==
    ComposedMessages \cup DecimalMessages \cup ValueMessages \cup KeylessMessages
        \cup HeaderMessages \cup {HeaderBody}

\* The messages users send to the bot.
BotMessages ==
    { <<"W", " ", "7", ",", "5">>,
      <<"D", "A", "T", "E", ":", " ", "2", "0", "2", "3", "-", "0", "5", "-", "1", "5", "\n", "W", " ", "7", ",", "5", "\n", "C", " ", "1", "1", "7">>,
      <<"W", " ", "7", ",", "5", "\n", " ", "b", "a", "d", " ", "\n", "C", " ", "-", " ", "x">>,
      <<"C", " ", "1", "1", "7", "\n", "c", "o", "n", "s", "t", "r", "u", "c", "t", "o", "r", " ", "5">>,
      <<"/", "c", "l", "e", "a", "r", " ", "a", "l", "l">>,
      <<>> }

\* Messages without a fragment: white space only, a valid date header
\* only (of the first and of the fourth pattern).
BlankMessages ==
    { <<" ", "\n", " ">>,
      <<"D", "A", "T", "E", ":", " ", "2", "0", "2", "3", "-", "0", "5", "-", "1", "5">>,
      <<"1", "5", ".", "0", "5", ".", "2", "0", "2", "3", " ", "\n">> }

\* Messages that start with "/": a command no handler is registered for,
\* and a line that would parse without the slash.
SlashMessages ==
    { <<"/", "s", "t", "a", "t", "s">>,
      <<"/", "W", " ", "7", ",", "5">> }

\* The messages the text handler is run on.
TextMessages == BotMessages \cup BlankMessages \cup SlashMessages

----------------------------------------------------------------------------
(* The bot *)

\* The HOST the server is constructed with, and hosts that requests name
\* in their Host or X-Forwarded-Host header.
ConfiguredHost == <<"h", "t", "t", "p", ":", "/", "/", "b", ".", "x">>

RequestHosts == { <<"b", ".", "x">>, <<"e", ".", "x">> }

\* No request has been handled yet.
NoResponse ==
    [request |-> [route |-> "none", token |-> "t0", hidden |-> {}, key |-> <<>>,
                  time |-> 0, groupId |-> "g1", groupName |-> <<>>,
                  metrics |-> <<>>],
     status |-> 0, body |-> "none"]

\* A user who is in no scene.
NoScene == [active |-> FALSE]

NotCalled == [called |-> FALSE, ok |-> FALSE, records |-> <<>>, error |-> NoError]

Outcome(res) ==
    [called |-> TRUE, ok |-> res.ok, records |-> res.records, error |-> res.error]

Reply(kind, details) == [kind |-> kind, details |-> details]

Init ==
    /\ userDataStore = <<>>
    /\ userPreferences = <<>>
    /\ dataFile = NoFile
    /\ preferencesFile = NoFile
    /\ userTokens = <<>>
    /\ tokensFile = NoFile
    /\ now = StartClock
    /\ msg = <<>>
    /\ sender = 0
    /\ result = NotCalled
    /\ reply = Reply("none", NoError)
    /\ host = ConfiguredHost
    /\ userGroups = <<>>
    /\ response = NoResponse
    /\ scene = [u \in Users |-> NoScene]

\* Date.prototype.toISOString throws a RangeError on an Invalid Date; the
\* handler calls it on the first record that has a timestamp.
ToISOStringThrows(records) ==
    LET stamped == {i \in 1..Len(records) : "timestamp" \in DOMAIN records[i]}
    IN  stamped # {} /\ ~records[Min(stamped)].timestamp.valid

\* saveData
SaveData(store, prefs) ==
    /\ dataFile' = File(StringifyStore(store))
    /\ preferencesFile' = File(prefs)

\* The number of tokens limitTokenStorage leaves a user.
TokenLimit == 3

\* limitTokenStorage dropping every user that has a token.
limitTokenStorageNone(tokens) ==
    LET count(userId) == Cardinality({uid \in DOMAIN tokens : uid = userId})
    IN  [uid \in {u \in DOMAIN tokens : count(u) <= 0} |-> tokens[uid]]

\* limitTokenStorage: userTokens is a Map from user id to token; the
\* entries are counted by user id, and for a user id counted more often
\* than the limit the method deletes the entry of that user id.
limitTokenStorage(tokens) ==
    LET count(userId) == Cardinality({uid \in DOMAIN tokens : uid = userId})
    IN  [uid \in {u \in DOMAIN tokens : count(u) <= TokenLimit} |-> tokens[uid]]

\* loadTokens: the tokens of a new Server.
loadTokens(file) == IF file.exists THEN file.content ELSE <<>>

\* getUserToken returning token: the token the user has, else a new random
\* one, which is stored, and saveTokens limits and writes the map.
ReturnsToken(userId, token) ==
    IF userId \in DOMAIN userTokens
    THEN /\ token = userTokens[userId]
         /\ UNCHANGED <<userTokens, tokensFile>>
    ELSE /\ token \notin {userTokens[u] : u \in DOMAIN userTokens}
         /\ userTokens' = limitTokenStorage(
                              [u \in DOMAIN userTokens \cup {userId} |->
                                  IF u = userId THEN token ELSE userTokens[u]])
         /\ tokensFile' = File(userTokens')

\* getUserChartUrl -> getUserToken
GetUserToken(userId) == \E token \in Tokens : ReturnsToken(userId, token)

\* parseMessage on each message of the bot, computed once.
BotParse == [m \in TextMessages |-> parseMessage(m)]

\* A text message that starts with "/" is skipped.
TextSkipped(u, m) ==
    /\ CharAt(m, 1) = "/"
    /\ result' = NotCalled
    /\ reply' = Reply("none", NoError)
    /\ UNCHANGED <<userDataStore, userPreferences, dataFile, preferencesFile,
                   userTokens, tokensFile>>

\* parseMessage threw, or returned no record.
TextRejected(u, m) ==
    \E res \in {BotParse[m]} :
        /\ CharAt(m, 1) # "/"
        /\ ~res.ok \/ Len(res.records) = 0
        /\ result' = Outcome(res)
        /\ reply' = IF ~res.ok THEN Reply("error", res.error)
                    ELSE Reply("noValidData", NoError)
        /\ UNCHANGED <<userDataStore, userPreferences, dataFile, preferencesFile,
                       userTokens, tokensFile>>

\* The handler after addData returned or threw: what it saves, the reply
\* it sends and the token it issues.
AfterAddData(u, records, a) ==
    /\ userDataStore' = a.store
    /\ userPreferences' = a.prefs
    /\ IF a.saved THEN SaveData(a.store, a.prefs)
       ELSE UNCHANGED <<dataFile, preferencesFile>>
    /\ IF a.threw
       THEN /\ reply' = Reply("error", [text |-> "TypeError", line |-> <<>>])
            /\ UNCHANGED <<userTokens, tokensFile>>
       ELSE IF ToISOStringThrows(records)
       THEN /\ reply' = Reply("error", [text |-> "Invalid time value", line |-> <<>>])
            /\ UNCHANGED <<userTokens, tokensFile>>
       ELSE /\ reply' = Reply("received", NoError)
            /\ GetUserToken(u)

\* item.userId = userId on every record
WithUserId(records, u) ==
    [i \in 1..Len(records) |->
        [f \in DOMAIN records[i] \cup {"userId"} |->
            IF f = "userId" THEN u ELSE records[i][f]]]

\* parseMessage returned records: they go to addData, then the reply is built.
TextStored(u, m) ==
    \E res \in {BotParse[m]} :
        /\ CharAt(m, 1) # "/"
        /\ res.ok /\ Len(res.records) > 0
        /\ TotalPoints(userDataStore) + Len(res.records) <= MaxPoints
        /\ result' = Outcome(res)
        /\ \E a \in {addData(userDataStore, userPreferences,
                              WithUserId(res.records, u), u, now)} :
               AfterAddData(u, res.records, a)

\* bot.on(message('text'))
OnText(u, m) ==
    /\ msg' = m
    /\ sender' = u
    /\ UNCHANGED <<now, serverVars>>
    /\ \/ TextSkipped(u, m)
       \/ TextRejected(u, m)
       \/ TextStored(u, m)

\* bot.command('clear')
OnClear(u) ==
    /\ sender' = u
    /\ msg' = <<"/", "c", "l", "e", "a", "r">>
    /\ result' = NotCalled
    /\ reply' = Reply("cleared", NoError)
    /\ userDataStore' = clearUserData(userDataStore, u)
    /\ IF u \in DOMAIN userDataStore
       THEN SaveData(userDataStore', userPreferences)
       ELSE UNCHANGED <<dataFile, preferencesFile>>
    /\ UNCHANGED <<userPreferences, userTokens, tokensFile, now, serverVars>>

\* Time passes.
Tick ==
    /\ now < StartClock + MaxTicks
    /\ now' = now + 1
    /\ UNCHANGED <<userDataStore, userPreferences, dataFile, preferencesFile,
                   userTokens, tokensFile, msg, sender, result, reply, serverVars>>

Next ==
    \/ \E u \in Users, m \in BotMessages : OnText(u, m)
    \/ \E u \in Users : OnClear(u)
    \/ Tick

Spec == Init /\ [][Next]_vars

\* parseMessage on each message of the parser's input set, computed once.
ParseTable == [m \in Messages |-> parseMessage(m)]

\* parseMessage applied to a message, outside the bot.
Parse(m) ==
    /\ ~result.called
    /\ msg' = m
    /\ result' = Outcome(ParseTable[m])
    /\ UNCHANGED <<userDataStore, userPreferences, dataFile, preferencesFile,
                   userTokens, tokensFile, now, sender, reply, serverVars>>

ParserNext == \E m \in Messages : Parse(m)

ParserSpec == Init /\ [][ParserNext]_vars

----------------------------------------------------------------------------
(* The text handler on messages without records *)

\* The messages of this specification: one that is stored, the empty one,
\* the blank ones and the ones that start with "/".
QuietMessages ==
    { <<"W", " ", "7", ",", "5">>, <<>> } \cup BlankMessages \cup SlashMessages

TextNext ==
    \/ \E u \in Users, m \in QuietMessages : OnText(u, m)
    \/ \E u \in Users : OnClear(u)
    \/ Tick

TextSpec == Init /\ [][TextNext]_vars

----------------------------------------------------------------------------
(* The data service on its own *)

\* Bound on the number of records of one addData call.
MaxBatch == 2

\* Records as parseMessage returns them: of "W 7,5", of "W 8" under a date
\* header, of "2023-13-45 W 8" (a date-shaped start that is no date, kept
\* in the key) and of "constructor 5".
StoreRecords ==
    { [key |-> <<"W">>, value |-> Normalize(75, 1)],
      [key |-> <<"W">>, value |-> Normalize(8, 0),
       timestamp |-> [type |-> "Date", valid |-> TRUE,
                      time |-> DaysFromCivil(2023, 5, 15)]],
      [key |-> <<"2", "0", "2", "3", "-", "1", "3", "-", "4", "5", " ", "W">>,
       value |-> Normalize(8, 0), timestamp |-> InvalidDate],
      [key |-> <<"c", "o", "n", "s", "t", "r", "u", "c", "t", "o", "r">>,
       value |-> Normalize(5, 0)] }

RecordBatches == UNION {[1..n -> StoreRecords] : n \in 1..MaxBatch}

\* dataService.addData(data, userId)
AddData(u, data) ==
    /\ TotalPoints(userDataStore) + Len(data) <= MaxPoints
    /\ \E a \in {addData(userDataStore, userPreferences, WithUserId(data, u), u, now)} :
          /\ userDataStore' = a.store
          /\ userPreferences' = a.prefs
          /\ IF a.saved THEN SaveData(a.store, a.prefs)
             ELSE UNCHANGED <<dataFile, preferencesFile>>
    /\ sender' = u
    /\ UNCHANGED <<userTokens, tokensFile, now, msg, result, reply, serverVars>>

\* dataService.clearUserData(userId)
ClearUserData(u) ==
    /\ userDataStore' = clearUserData(userDataStore, u)
    /\ IF u \in DOMAIN userDataStore
       THEN SaveData(userDataStore', userPreferences)
       ELSE UNCHANGED <<dataFile, preferencesFile>>
    /\ sender' = u
    /\ UNCHANGED <<userPreferences, userTokens, tokensFile, now, msg, result, reply,
                   serverVars>>

StoreNext ==
    \/ \E u \in Users, data \in RecordBatches : AddData(u, data)
    \/ \E u \in Users : ClearUserData(u)

StoreSpec == Init /\ [][StoreNext]_vars

----------------------------------------------------------------------------
(* The parser on messages that start with a date *)

\* Messages whose start looks like more than one date: the text after a
\* matched date, or after a date that is no date, starts another date.
NearDateMessages ==
    { <<"2", "0", "2", "3", "-", "0", "5", "-", "1", "5", ".", "2", "0", "2", "3", " ", "W", " ", "5">>,
      <<"1", "5", ".", "0", "5", ".", "2", "0", "2", "3", "-", "0", "5", "-", "1", "5", " ", "W", " ", "5">>,
      <<"D", "A", "T", "E", ":", " ", "2", "0", "2", "3", "-", "1", "3", "-", "4", "5", "\n", "1", "5", ".", "0", "5", ".", "2", "0", "2", "3", "\n", "W", " ", "5">>,
      <<"2", "0", "2", "3", "-", "1", "3", "-", "4", "5", " ", "1", "2", ".", "0", "5", ".", "2", "0", "2", "3", " ", "W", " ", "5">>,
      <<"4", "5", ".", "1", "3", ".", "2", "0", "2", "3", " ", "2", "0", "2", "3", "-", "0", "5", "-", "1", "5", " ", "W", " ", "5">>,
      <<"D", "A", "T", "E", ":", " ", "4", "5", ".", "1", "3", ".", "2", "0", "2", "3", " ", "D", "A", "T", "E", ":", " ", "2", "0", "2", "3", "-", "0", "5", "-", "1", "5", "\n", "W", " ", "5">>,
      <<" ", "d", "a", "t", "e", " ", ":", "\n", "2", "0", "2", "3", "-", "0", "5", "-", "1", "5", "\n", "W", " ", "5">>,
      <<"1", "2", ".", "5", ".", "2", "0", "2", "3", "4", " ", "W", " ", "5">>,
      <<"1", "2", "3", "4", ".", "5", ".", "6", "7", "8", "9", " ", "W", " ", "5">> }

\* Messages that start with a date or with what looks like one.
DateMessages ==
    HeaderMessages \cup NearDateMessages
        \cup {Compose(h, <<f>>) : h \in Headers, f \in {<<"W", " ", "7", ",", "5">>}}

DateTable == [m \in DateMessages |-> parseMessage(m)]

\* parseMessage applied to a message that starts with a date.
ParseDated(m) ==
    /\ ~result.called
    /\ msg' = m
    /\ result' = Outcome(DateTable[m])
    /\ UNCHANGED <<userDataStore, userPreferences, dataFile, preferencesFile,
                   userTokens, tokensFile, now, sender, reply, serverVars>>

DateNext == \E m \in DateMessages : ParseDated(m)

DateSpec == Init /\ [][DateNext]_vars

----------------------------------------------------------------------------
(* The data service across restarts *)

\* The process ends and a new one starts: the constructors of DataService
\* and Server load what the files hold, for a server that has no legacy
\* groups file; sessions are kept in memory and are lost.
Restart ==
    /\ userDataStore' = loadData(dataFile)
    /\ userPreferences' = loadPreferences(preferencesFile)
    /\ userTokens' = loadTokens(tokensFile)
    /\ sender' = 0
    /\ host' = ConfiguredHost
    /\ userGroups = <<>> /\ userGroups' = <<>>
    /\ response' = NoResponse
    /\ scene' = [u \in Users |-> NoScene]
    /\ UNCHANGED <<dataFile, preferencesFile, tokensFile, now, msg, result, reply>>

RestartNext ==
    \/ StoreNext
    \/ Restart

RestartSpec == Init /\ [][RestartNext]_vars

----------------------------------------------------------------------------
(* The series of the store under every writer *)

\* The timestamps a point can be deleted by: the date of the dated record
\* and the clock.
DeleteTimes == {DaysFromCivil(2023, 5, 15), StartClock}

\* handleDeleteDataPoint after the token check:
\* dataService.deleteDataPoint(userId, key, timestamp)
DeleteDataPoint(u, key, time) ==
    /\ \E d \in {deleteDataPoint(userDataStore, u, key, time)} :
          /\ userDataStore' = d.store
          /\ IF d.found THEN SaveData(d.store, userPreferences)
             ELSE UNCHANGED <<dataFile, preferencesFile>>
    /\ sender' = u
    /\ UNCHANGED <<userPreferences, userTokens, tokensFile, now, msg, result, reply,
                   serverVars>>

SeriesNext ==
    \/ StoreNext
    \/ Restart
    \/ \E u \in Users, key \in {r.key : r \in StoreRecords}, time \in DeleteTimes :
          DeleteDataPoint(u, key, time)

SeriesSpec == Init /\ [][SeriesNext]_vars

----------------------------------------------------------------------------
(* The web server *)

\* Tokens of requests: the tokens the server issues and one it never issued.
RequestTokens == Tokens \cup {"t0"}

GroupIds == {"g1"}

Routes ==
    ReadRoutes \cup {"listGroups", "createGroup", "deleteGroup", "deleteAll",
                     "deletePoint"}

\* A request of a route with a token; each route reads the fields it has
\* parameters for.
Request(route, token) ==
    [route |-> route, token |-> token, hidden |-> {}, key |-> <<"W">>,
     time |-> StartClock, groupId |-> "g1", groupName |-> <<"n">>,
     metrics |-> << <<"W">> >>]

Requests ==
    {Request(r, t) : r \in Routes, t \in RequestTokens}
        \cup {[Request("createGroup", "t1") EXCEPT !.metrics = <<>>]}

\* The records of "W 7,5".
ServerRecords == { <<[key |-> <<"W">>, value |-> Normalize(75, 1)]>> }

\* The ids createGroup can draw for a request: one id for a route that
\* draws none.
NewIds(req) == IF req.route = "createGroup" THEN GroupIds ELSE {"g1"}

\* An HTTP request: the middleware, then the route.
HttpRequest(req, protocol, header) ==
    /\ host' = middleware(host, protocol, header)
    /\ \E newId \in NewIds(req) :
          /\ req.route = "createGroup" =>
                \A u \in DOMAIN userTokens :
                    userTokens[u] = req.token =>
                        newId \notin DOMAIN getUserGroups(userGroups, u)
          /\ \E r \in Handle(req, userDataStore, userGroups, userTokens, newId) :
                /\ response' = [request |-> req, status |-> r.status, body |-> r.body]
                /\ userDataStore' = r.store
                /\ userGroups' = r.groups
                /\ IF r.saved THEN SaveData(r.store, userPreferences)
                   ELSE UNCHANGED <<dataFile, preferencesFile>>
    /\ UNCHANGED <<userPreferences, userTokens, tokensFile, now, msg, sender,
                   result, reply, scene>>

\* The path of the dashboard page.
ViewPath == <<"/", "v", "i", "e", "w", "/">>

\* bot.command('chart'): the reply carries getUserChartUrl(userId).
GetUserChartUrl(u) ==
    /\ \E token \in Tokens :
          /\ ReturnsToken(u, token)
          /\ reply' = Reply("link", [user |-> u, token |-> token,
                                     issued |-> u \notin DOMAIN userTokens,
                                     url |-> host \o ViewPath \o <<token>>])
    /\ UNCHANGED <<userDataStore, userPreferences, dataFile, preferencesFile,
                   now, msg, sender, result, serverVars>>

\* server.getUserToken(userId)
IssueToken(u) ==
    /\ GetUserToken(u)
    /\ UNCHANGED <<userDataStore, userPreferences, dataFile, preferencesFile,
                   now, msg, sender, result, reply, serverVars>>

ServerNext ==
    \/ \E u \in Users, data \in ServerRecords : AddData(u, data)
    \/ \E u \in Users : IssueToken(u)
    \/ \E req \in Requests : HttpRequest(req, <<"h", "t", "t", "p">>, <<"b", ".", "x">>)

ServerSpec == Init /\ [][ServerNext]_vars

----------------------------------------------------------------------------
(* The dashboard links *)

Protocols == { <<"h", "t", "t", "p">>, <<"h", "t", "t", "p", "s">> }

\* Requests of the dashboard page.
LinkRequests == {Request("view", t) : t \in RequestTokens}

LinkNext ==
    \/ \E u \in Users : GetUserChartUrl(u)
    \/ \E req \in LinkRequests, protocol \in Protocols, header \in RequestHosts :
          HttpRequest(req, protocol, header)
    \/ Restart

LinkSpec == Init /\ [][LinkNext]_vars

----------------------------------------------------------------------------
(* The bot with the delete scene *)

\* The replies a user sends in the dialogue.
SceneTexts ==
    { <<"c", "a", "n", "c", "e", "l">>,
      <<"A", "L", "L">>,
      <<"1">>,
      <<"2">>,
      <<"9">>,
      <<"2", " ", "k", "g">>,
      <<"W", " ", "7", ",", "5">> }

\* The records of "W 7,5" and of "C 117".
SceneRecords ==
    { <<[key |-> <<"W">>, value |-> Normalize(75, 1)]>>,
      <<[key |-> <<"C">>, value |-> Normalize(117, 0)]>> }

\* ctx.scene.leave()
Leave(u) == scene' = [scene EXCEPT ![u] = NoScene]

\* bot.command('delete') -> deleteScene.enter, for a user who is in no
\* scene: the latest points are listed and kept in the session.
EnterDelete(u) ==
    /\ ~scene[u].active
    /\ msg' = <<"/", "d", "e", "l", "e", "t", "e">>
    /\ sender' = u
    /\ result' = NotCalled
    /\ \E latestPoints \in {getUserLatestDataPoints(userDataStore, u)} :
          IF Len(latestPoints) = 0
          THEN /\ reply' = Reply("noDataToDelete", NoError)
               /\ UNCHANGED scene
          ELSE /\ reply' = Reply("deleteList", NoError)
               /\ scene' = [scene EXCEPT ![u] =
                               [active |-> TRUE,
                                deletePoints |-> SortByKey(latestPoints)]]
    /\ UNCHANGED <<userDataStore, userPreferences, dataFile, preferencesFile,
                   userTokens, tokensFile, now, host, userGroups, response>>

\* The scene's handler after the cancel test, for the number it read.
SceneNumber(u, points, index) ==
    IF index.nan \/ index.n - 1 < 0 \/ index.n - 1 >= Len(points)
    THEN /\ reply' = Reply("invalidNumber", NoError)
         /\ UNCHANGED <<userDataStore, dataFile, preferencesFile, scene>>
    ELSE \E d \in {deleteDataPoint(userDataStore, u, points[index.n].key,
                                   points[index.n].timestamp.time)} :
            /\ userDataStore' = d.store
            /\ IF d.found THEN SaveData(d.store, userPreferences)
               ELSE UNCHANGED <<dataFile, preferencesFile>>
            /\ reply' = Reply(IF d.found THEN "deleted" ELSE "deleteFailed", NoError)
            /\ Leave(u)

\* deleteScene.on('text'), for a user who is in the scene: the stage
\* middleware hands every text of the user to this handler.
SceneText(u, m) ==
    /\ scene[u].active
    /\ msg' = m
    /\ sender' = u
    /\ result' = NotCalled
    /\ \E text \in {trim(m)} :
          IF toLowerCase(text) = <<"c", "a", "n", "c", "e", "l">>
          THEN /\ reply' = Reply("cancelled", NoError)
               /\ Leave(u)
               /\ UNCHANGED <<userDataStore, dataFile, preferencesFile>>
          ELSE IF toLowerCase(text) = <<"a", "l", "l">>
          THEN /\ userDataStore' = clearUserData(userDataStore, u)
               /\ IF u \in DOMAIN userDataStore
                  THEN SaveData(userDataStore', userPreferences)
                  ELSE UNCHANGED <<dataFile, preferencesFile>>
               /\ reply' = Reply("allDeleted", NoError)
               /\ Leave(u)
          ELSE SceneNumber(u, scene[u].deletePoints, parseInt(text))
    /\ UNCHANGED <<userPreferences, userTokens, tokensFile, now, host,
                   userGroups, response>>

SceneNext ==
    \/ \E u \in Users, data \in SceneRecords : ~scene[u].active /\ AddData(u, data)
    \/ \E u \in Users : EnterDelete(u)
    \/ \E u \in Users, m \in SceneTexts : SceneText(u, m)

SceneSpec == Init /\ [][SceneNext]_vars

----------------------------------------------------------------------------
(* Properties of the text handler *)

\* The fragments of a message: the non-empty trimmed lines of its text
\* after date extraction.
Lines(m) == SplitLines(ExtractDate(m).cleaned)

AllFragmentsParse(m) == \A i \in 1..Len(Lines(m)) : ParseLine(Lines(m)[i]).ok

\* The points of one key of one user, in stored order.
SeriesOf(store, u, key) ==
    LET k == IF u \in DOMAIN store THEN KeyIndex(store[u], key) ELSE 0
    IN  IF k = 0 THEN <<>>
        ELSE [i \in 1..Len(store[u][k].values) |->
                 [value |-> store[u][k].values[i],
                  timestamp |-> store[u][k].timestamps[i]]]

\* The points a handler run is to append for key: one per record of that
\* key, in record order, stamped with the record's date or else the clock.
PointsFor(records, key, clock) ==
    LET hasKey(r) == r.key = key
        rs == SelectSeq(records, hasKey)
    IN  [i \in 1..Len(rs) |->
            [value |-> rs[i].value,
             timestamp |-> IF "timestamp" \in DOMAIN rs[i] THEN rs[i].timestamp
                           ELSE [type |-> "Date", valid |-> TRUE, time |-> clock]]]

KeysIn(store, records) ==
    {records[i].key : i \in 1..Len(records)}
        \cup UNION {{store[u][k].key : k \in 1..Len(store[u])} : u \in DOMAIN store}

\* A step in which the text handler ran parseMessage.
TextStep == result'.called /\ now' = now /\ msg' \in BotMessages

\* C1: parsing is all-or-nothing.  In every run of the text handler, if
\* some fragment of the message fails to parse, parseMessage yields no
\* record and the store is left as it was; if every fragment parses, each
\* record of the message is appended to the sender's series of its key.
C1_AllOrNothing ==
    [][TextStep =>
        IF ~AllFragmentsParse(msg')
        THEN /\ ~result'.ok
             /\ result'.records = <<>>
             /\ userDataStore' = userDataStore
        ELSE /\ result'.ok
             /\ \A key \in KeysIn(userDataStore, result'.records) :
                    SeriesOf(userDataStore', sender', key)
                        = SeriesOf(userDataStore, sender', key)
                          \o PointsFor(result'.records, key, now)]_vars

----------------------------------------------------------------------------
(* Properties of parseMessage *)

HasTimestamp(r) == "timestamp" \in DOMAIN r

\* A date header was recognised: a pattern matched a valid date and the
\* match was stripped from the text.
HeaderRecognized(m) == ExtractDate(m).stripped

\* Some date pattern matches the start of the trimmed message.
DateShapedStart(m) ==
    \E p \in 1..Len(datePatterns) : MatchDatePattern(datePatterns[p], trim(m)).matched

\* C2: if a date header is recognised at the start of a message, every
\* record parseMessage returns carries a timestamp, and these timestamps
\* are all the same valid date.
C2_SameTimestamp ==
    (result.called /\ HeaderRecognized(msg)) =>
        \A i, j \in 1..Len(result.records) :
            /\ HasTimestamp(result.records[i])
            /\ result.records[i].timestamp.valid
            /\ result.records[i].timestamp = result.records[j].timestamp

C2_Witness ==
    /\ result.called /\ HeaderRecognized(msg)
    /\ Len(result.records) >= 2
    /\ result.records[1].key # result.records[2].key

C4_InvalidDateIsNoDate ==
    (result.called /\ DateShapedStart(msg) /\ ~HeaderRecognized(msg)) =>
        /\ ExtractDate(msg).cleaned = trim(msg)
        /\ \A i \in 1..Len(result.records) : ~HasTimestamp(result.records[i])

\* The fragments the comma rule gives: the text is split on commas when
\* it holds one, on newlines otherwise.
CommaRuleFragments(cleaned) ==
    LET raw == IF includes(cleaned, <<",">>) THEN split(cleaned, <<",">>)
               ELSE split(cleaned, NewLine)
        trimmed == [k \in 1..Len(raw) |-> trim(raw[k])]
        nonEmpty(l) == Len(l) > 0
    IN  SelectSeq(trimmed, nonEmpty)

\* C5: a text that contains a comma is split into fragments on commas, so
\* whenever each of its comma-separated fragments is a pair that parses,
\* the message parses to one record per such fragment (two records for
\* "t" - 25, "h" - 60).
C5_CommaSeparated ==
    LET cleaned == ExtractDate(msg).cleaned
        frs == CommaRuleFragments(cleaned)
    IN  (/\ result.called
         /\ includes(cleaned, <<",">>)
         /\ \A i \in 1..Len(frs) : ParseLine(frs[i]).ok) =>
            /\ result.ok
            /\ Len(result.records) = Len(frs)

\* C6: comma and dot are the same decimal separator.  A fragment K a,b in
\* the space form or the dash form parses to one record with key K and
\* value a.b, the very result of parsing K a.b.
C6_CommaEqualsDot ==
    \A K \in PlainKeys, sep \in KeyValueSeps, a \in IntParts, b \in FracParts :
        (result.called /\ msg = Decimal(K, sep, a, ",", b)) =>
            /\ result.ok
            /\ Len(result.records) = 1
            /\ result.records[1].key = K
            /\ result.records[1].value = Normalize(DigitsToNat(a \o b), Len(b))
            /\ result.records = ParseTable[Decimal(K, sep, a, ".", b)].records

C6_Witness ==
    /\ result.called /\ result.ok
    /\ \E K \in PlainKeys, a \in IntParts, b \in FracParts :
           msg = Decimal(K, SpaceDashSpace, a, ",", b)

\* The value part of a fragment, read from its end: the text after its
\* last white space (the whole fragment when it has none).
ValueText(line) ==
    LET spaces == {i \in 1..Len(line) : IsSpace(line[i])}
    IN  IF spaces # {} THEN Drop(line, Max(spaces)) ELSE line

\* C7: every record has a finite value, and a fragment whose value part
\* is not a numeral digits or digits[.,]digits makes the parse fail.
C7_FiniteNumeral ==
    (result.called /\ result.ok) =>
        /\ \A i \in 1..Len(result.records) : result.records[i].value.cls = "finite"
        /\ \A i \in 1..Len(Lines(msg)) : IsNumeral(ValueText(Lines(msg)[i]))

\* Indices of the first non-blank character of each line of a text.
LineStarts(text) ==
    {i \in 1..Len(text) :
        /\ ~IsSpace(text[i])
        /\ \E j \in 0..(i - 1) :
              /\ j = 0 \/ text[j] = "\n"
              /\ \A k \in (j + 1)..(i - 1) : IsSpace(text[k]) /\ text[k] # "\n"}

IsPrefix(p, s) == Len(p) <= Len(s) /\ Take(s, Len(p)) = p

\* C8: a successful parse returns one record per non-empty fragment, in
\* fragment order: record i has the key and the value of fragment i.
C8_OneRecordPerFragment ==
    (result.called /\ result.ok) =>
        /\ Len(result.records) = Cardinality(LineStarts(ExtractDate(msg).cleaned))
        /\ Len(result.records) = Len(Lines(msg))
        /\ \A i \in 1..Len(result.records) :
              /\ IsPrefix(result.records[i].key, Lines(msg)[i])
              /\ result.records[i].value = ParseLine(Lines(msg)[i]).value

C8_Witness ==
    /\ result.called /\ result.ok
    /\ Len(result.records) = 2
    /\ result.records[1].key # result.records[2].key

\* A fragment in the unquoted dash form: a key that neither starts with a
\* quote nor ends in a dash, a last dash, a numeral.
DashForm(line) ==
    LET dashes == {i \in 2..Len(line) : line[i] = "-"}
        key == trim(Take(line, Max(dashes) - 1))
    IN  /\ dashes # {}
        /\ IsNumeral(trim(Drop(line, Max(dashes))))
        /\ key # <<>>
        /\ key[1] # "\"" /\ key[Len(key)] # "-"

KeyBeforeLastDash(line) ==
    trim(Take(line, Max({i \in 2..Len(line) : line[i] = "-"}) - 1))

\* C9: a one-fragment message in the dash form, with any white space or
\* none around the dash, parses to the key before its last dash.
C9_LastDash ==
    (result.called /\ Len(Lines(msg)) = 1 /\ DashForm(Lines(msg)[1])) =>
        /\ result.ok
        /\ Len(result.records) = 1
        /\ result.records[1].key = KeyBeforeLastDash(Lines(msg)[1])

\* A fragment in the quoted form: "key", a dash, a numeral.
QuotedForm(line) ==
    LET quotes == {i \in 1..Len(line) : line[i] = "\""}
        q == Max(quotes)
        rest == trim(Drop(line, q))
    IN  /\ Cardinality(quotes) = 2
        /\ Min(quotes) = 1
        /\ q > 2
        /\ CharAt(rest, 1) = "-"
        /\ IsNumeral(trim(Tail(rest)))

QuotedKey(line) ==
    trim(SubSeq(line, 2, Max({i \in 1..Len(line) : line[i] = "\""}) - 1))

\* C10: a one-fragment message in the quoted form parses to the key
\* between the quotes, trimmed, without the quote characters.
C10_QuotesStripped ==
    (result.called /\ Len(Lines(msg)) = 1 /\ QuotedForm(Lines(msg)[1])) =>
        /\ result.ok
        /\ Len(result.records) = 1
        /\ result.records[1].key = QuotedKey(Lines(msg)[1])

\* C11: every record has a non-empty, trimmed key that is the text of its
\* fragment as typed, character for character, up to the value; a message
\* with a fragment that is a numeral alone, with no key text, fails.
C11_KeyAsTyped ==
    result.called =>
        /\ result.ok =>
              \A i \in 1..Len(result.records) :
                  /\ result.records[i].key # <<>>
                  /\ trim(result.records[i].key) = result.records[i].key
                  /\ IsPrefix(result.records[i].key, Lines(msg)[i])
        /\ (\E i \in 1..Len(Lines(msg)) : IsNumeral(Lines(msg)[i])) => ~result.ok

C11_Witness ==
    /\ result.called /\ result.ok
    /\ Len(result.records) = 1
    /\ result.records[1].key = <<"L", "o", "w", " ", "b">>

\* C12: a valid date header, with the DATE: label in any letter case or
\* bare, year-first or day-first, with -, / or . between the fields, is
\* removed before the lines are split: the message parses to the records
\* of the text under the header, and each of them carries the date of the
\* header, read as year, month, day whatever the order it was typed in.
C12_HeaderRemoved ==
    \A label \in DateLabels, shape \in {"YMD", "DMY"}, sep \in DateSeps,
       dt \in HeaderDates, end \in HeaderEnds :
        (result.called /\ msg = HeaderMessage(label, shape, sep, dt, end)) =>
            /\ result.ok
            /\ Len(result.records) = Len(ParseTable[HeaderBody].records)
            /\ \A i \in 1..Len(result.records) :
                  /\ result.records[i].key = ParseTable[HeaderBody].records[i].key
                  /\ result.records[i].value = ParseTable[HeaderBody].records[i].value
                  /\ HasTimestamp(result.records[i])
                  /\ result.records[i].timestamp
                        = [type |-> "Date", valid |-> TRUE,
                           time |-> DaysFromCivil(DigitsToNat(dt.y), DigitsToNat(dt.m),
                                                  DigitsToNat(dt.d))]

C12_Witness ==
    /\ result.called /\ result.ok
    /\ Len(result.records) = 2
    /\ \E dt \in HeaderDates :
           msg = HeaderMessage(<<>>, "DMY", ".", dt, <<" ">>)

\* The first fragment of a message, in fragment order, that does not
\* resolve into a key and a number.
FirstFailing(m) ==
    LET ls == Lines(m)
    IN  ls[Min({i \in 1..Len(ls) : ~ParseLine(ls[i]).ok})]

\* C13: when parseMessage fails in the text handler, its error quotes the
\* text of the first fragment that does not parse, and the reply sent for
\* the message is the error reply carrying that error.
C13_ErrorNamesFragment ==
    (result.called /\ ~result.ok) =>
        /\ result.error.text \in {"Invalid format in line",
                                  "Invalid numeric value in line"}
        /\ result.error.line = FirstFailing(msg)
        /\ reply.kind = "error"
        /\ reply.details = result.error

C13_Witness ==
    /\ result.called /\ ~result.ok
    /\ reply.kind = "error"
    /\ Cardinality({i \in 1..Len(Lines(msg)) : ~ParseLine(Lines(msg)[i]).ok}) = 2
    /\ ParseLine(Lines(msg)[1]).ok

AddDataStep == TextStep /\ result'.ok /\ Len(result'.records) > 0

\* C15: addData appends exactly one point per record to the user's series
\* of the record's key, in record order, stamped with the record's own
\* timestamp or else with the one default timestamp of the call.
C15_OnePointPerRecord ==
    [][AddDataStep =>
        /\ \A key \in KeysIn(userDataStore, result'.records) :
              SeriesOf(userDataStore', sender', key)
                  = SeriesOf(userDataStore, sender', key)
                    \o PointsFor(result'.records, key, now)
        /\ Len(UserPoints(userDataStore', sender'))
              = Len(UserPoints(userDataStore, sender')) + Len(result'.records)]_vars

----------------------------------------------------------------------------
(* Properties of the data service *)

\* Both sequences hold the same points, each as often as the other.
SamePoints(r, s) ==
    /\ Len(r) = Len(s)
    /\ \A i \in 1..Len(s) :
          Cardinality({j \in 1..Len(r) : r[j] = s[i]})
              = Cardinality({j \in 1..Len(s) : s[j] = s[i]})

\* Ordered by timestamp, oldest first.
Ascending(r) ==
    \A i \in 1..(Len(r) - 1) :
        /\ r[i].timestamp.valid /\ r[i + 1].timestamp.valid
        /\ r[i].timestamp.time <= r[i + 1].timestamp.time

\* The points an addData call is to append: one per record.
Appended(data, u, clock) ==
    [i \in 1..Len(data) |->
        [key |-> data[i].key, value |-> data[i].value,
         timestamp |-> IF "timestamp" \in DOMAIN data[i] THEN data[i].timestamp
                       ELSE [type |-> "Date", valid |-> TRUE, time |-> clock],
         userId |-> u]]

\* C16: getUserData returns the user's points ordered by timestamp
\* ascending; right after addData it holds the points it held before and
\* the points of the call, each once, and right after clearUserData it is
\* empty.
C16_ReadYourWrites ==
    [][\A u \in Users :
          /\ \A r \in getUserData(userDataStore', u) : Ascending(r)
          /\ \A data \in RecordBatches :
                AddData(u, data) =>
                    \A r \in getUserData(userDataStore', u) :
                        SamePoints(r, UserPoints(userDataStore, u)
                                      \o Appended(data, u, now))
          /\ ClearUserData(u) => getUserData(userDataStore', u) = {<<>>}]_vars

\* The step is an addData or a clearUserData call for user a.
WriteOf(a) == sender' = a

\* C17: user data is isolated.  addData and clearUserData for one user
\* leave the stored series of every other user as they were, and what
\* getUserData, getUserKeys and getUserLatestData return for the other
\* user is unchanged and holds that user's own points only.
C17_Isolation ==
    [][\A a \in Users : \A b \in Users \ {a} :
          WriteOf(a) =>
              /\ (b \in DOMAIN userDataStore') = (b \in DOMAIN userDataStore)
              /\ b \in DOMAIN userDataStore => userDataStore'[b] = userDataStore[b]
              /\ getUserData(userDataStore', b) = getUserData(userDataStore, b)
              /\ getUserKeys(userDataStore', b) = getUserKeys(userDataStore, b)
              /\ getUserLatestData(userDataStore', b)
                    = getUserLatestData(userDataStore, b)
              /\ \A r \in getUserData(userDataStore', b) :
                    \A i \in 1..Len(r) : r[i].userId = b]_vars

\* Both users hold a series of the same key.
C17_Witness ==
    /\ \A u \in Users : getUserKeys(userDataStore, u) = <<(<<"W">>)>>
    /\ UserPoints(userDataStore, 1)[1].timestamp
          # UserPoints(userDataStore, 2)[1].timestamp

\* The three reads of a user return nothing.
ReadsEmpty(store, u) ==
    /\ getUserData(store, u) = {<<>>}
    /\ getUserKeys(store, u) = <<>>
    /\ getUserLatestData(store, u) = {}

\* C19: after clearUserData(u) the three reads of u are empty, and they
\* stay empty over every call that is not an addData for u; clearing a
\* user who holds no point leaves the reads of every user as they were.
C19_ClearEmpties ==
    [][\A u \in Users :
          /\ ClearUserData(u) =>
                /\ ReadsEmpty(userDataStore', u)
                /\ UserPoints(userDataStore, u) = <<>> =>
                      \A v \in Users :
                          /\ UserPoints(userDataStore', v) = UserPoints(userDataStore, v)
                          /\ getUserKeys(userDataStore', v) = getUserKeys(userDataStore, v)
                          /\ getUserLatestData(userDataStore', v)
                                = getUserLatestData(userDataStore, v)
          /\ (ReadsEmpty(userDataStore, u) /\ sender' # u) =>
                ReadsEmpty(userDataStore', u)]_vars

\* A user who had stored points has been cleared, while the other user
\* holds points.
C19_Witness ==
    \E u \in Users :
        /\ sender = u
        /\ u \notin DOMAIN userDataStore
        /\ u \in DOMAIN userPreferences
        /\ userPreferences[u].favoriteMetrics # <<>>
        /\ \E v \in Users \ {u} : UserPoints(userDataStore, v) # <<>>

----------------------------------------------------------------------------
(* Properties of concurrent handlers *)

\* The handlers are synchronous functions, so each runs to completion
\* before the next starts and the steps of Spec are whole handler runs.

\* C18: every write takes effect atomically.  After a run of the text
\* handler the sender's store holds every record of the message or none
\* of them, never a part, and after a run of the clear handler it holds
\* no point of the sender.
C18_AtomicWrites ==
    [][/\ TextStep =>
             \/ userDataStore' = userDataStore
             \/ Len(UserPoints(userDataStore', sender'))
                   = Len(UserPoints(userDataStore, sender')) + Len(result'.records)
       /\ reply'.kind = "cleared" => UserPoints(userDataStore', sender') = <<>>]_vars

----------------------------------------------------------------------------
(* Properties of the chart requests *)

\* The keys a chart request can hide: those of the user's points.
KeysOf(store, u) == {UserPoints(store, u)[i].key : i \in 1..Len(UserPoints(store, u))}

\* C20: a chart request of a user who holds a token, with any set of
\* hidden keys that leaves no point to draw (the user has no point, or
\* every key is hidden), is answered with status 200 and the placeholder
\* image.
C20_EmptyChartPlaceholder ==
    \A u \in DOMAIN userTokens :
        \A hiddenKeys \in SUBSET KeysOf(userDataStore, u) :
            hiddenKeys = KeysOf(userDataStore, u) =>
                handleChartRequest(userDataStore, userTokens, userTokens[u], hiddenKeys)
                    = [status |-> 200, body |-> "placeholder"]

----------------------------------------------------------------------------
(* Properties of the chart colours *)

\* The keys a user has points of.
ChartKeys(store, u) == {p.key : p \in {UserPoints(store, u)[i] : i \in 1..Len(UserPoints(store, u))}}

\* The hue a chart of user u's data gives key k when hidden is hidden; a
\* set, empty when the key is not drawn.
HuesOf(store, u, k, hidden) ==
    {d.hue : d \in {x \in TimelineDatasets(UserPoints(store, u), hidden) : x.label = k}}

\* C21: the chart colour of a key is consistent across render calls: for
\* the same user and key the hue is the same in every call, whichever keys
\* are hidden in the call and whichever other keys were added to or deleted
\* from the user's data between the calls; hidden keys are not drawn.
C21_StableHue ==
    [][\A u \in Users :
          \A k \in ChartKeys(userDataStore, u) \cap ChartKeys(userDataStore', u) :
              \A h1, h2 \in SUBSET (ChartKeys(userDataStore, u) \cup ChartKeys(userDataStore', u)) :
                  /\ k \in h1 => HuesOf(userDataStore, u, k, h1) = {}
                  /\ (k \notin h1 /\ k \notin h2) =>
                        HuesOf(userDataStore, u, k, h1) = HuesOf(userDataStore', u, k, h2)]_vars

----------------------------------------------------------------------------
(* Properties of persistence *)

\* Every timestamp of the store is a Date.
TimestampsAreDates(store) ==
    \A u \in DOMAIN store : \A k \in 1..Len(store[u]) :
        \A i \in 1..Len(store[u][k].timestamps) :
            store[u][k].timestamps[i].type = "Date"

\* C22: stored data survives a restart: loading what saveData wrote gives
\* a store equal to the one saved, with every timestamp again a date
\* value, so getUserData after the restart returns the same points in the
\* same order as before it.
C22_SurvivesRestart ==
    [][(Restart /\ dataFile = File(StringifyStore(userDataStore))) =>
          /\ userDataStore' = userDataStore
          /\ TimestampsAreDates(userDataStore')
          /\ \A u \in Users : ~getUserDataThrows(userDataStore', u)]_vars

----------------------------------------------------------------------------
(* Properties of the routes *)

\* A store, or the groups, with the entry of user u alone.
Only(f, u) == [v \in DOMAIN f \cap {u} |-> f[v]]

\* f and g hold the same for every user but u.
SameForOthers(f, g, u) ==
    \A v \in Users \ {u} :
        /\ v \in DOMAIN f <=> v \in DOMAIN g
        /\ v \in DOMAIN f => f[v] = g[v]

\* Two responses are the same: of the same request, with the same status
\* and the same body.
SameResponse(a, b) ==
    a.request = b.request /\ a.status = b.status /\ a.body = b.body

\* The response of the step is one the request has on these data and groups.
AnswersFrom(store, groups) ==
    \E newId \in GroupIds :
        \E r \in Handle(response'.request, store, groups, userTokens, newId) :
            r.status = response'.status /\ r.body = response'.body

\* C23: every route that takes a token answers 403 and neither reads nor
\* changes any user's data or groups when the token was not issued to some
\* user; when the token was issued to user U, the request reads and changes
\* only U's data and groups.
C23_TokenIsolation ==
    [][~SameResponse(response', response) =>
          IF ~TokenKnown(userTokens, response'.request.token)
          THEN /\ response'.status = 403
               /\ AnswersFrom(<<>>, <<>>)
               /\ UNCHANGED <<userDataStore, userGroups, userPreferences,
                              dataFile, preferencesFile>>
          ELSE \E U \in {getUserIdFromToken(userTokens, response'.request.token)} :
                  /\ AnswersFrom(Only(userDataStore, U), Only(userGroups, U))
                  /\ SameForOthers(userDataStore, userDataStore', U)
                  /\ SameForOthers(userGroups, userGroups', U)]_vars

\* A user's token has deleted all their data while the other user has
\* points and a group, which are still there.
C23_Witness ==
    /\ response.status = 200
    /\ response.request.route = "deleteAll"
    /\ \E U, V \in Users :
          /\ U # V
          /\ U \in DOMAIN userTokens /\ userTokens[U] = response.request.token
          /\ U \notin DOMAIN userDataStore
          /\ Len(UserPoints(userDataStore, V)) > 0
          /\ DOMAIN getUserGroups(userGroups, V) # {}
          /\ DOMAIN getUserGroups(userGroups, U) # {}

----------------------------------------------------------------------------
(* Properties of the dashboard tokens *)

\* C24: a user's dashboard token is stable and bounded: the first
\* getUserToken(userId) issues a token and every later call returns that
\* same token, saving tokens never removes the token of any user, and at
\* no time are more than 3 tokens stored for one user.
C24_StableToken ==
    [][/\ \A u \in DOMAIN userTokens :
              u \in DOMAIN userTokens' /\ userTokens'[u] = userTokens[u]
       /\ (reply'.kind = "link" /\ reply' # reply) =>
              /\ reply'.details.user \in DOMAIN userTokens'
              /\ reply'.details.token = userTokens'[reply'.details.user]
              /\ tokensFile' = File(userTokens')
       /\ \A u \in Users :
              Cardinality({v \in DOMAIN userTokens' : v = u}) <= TokenLimit]_vars

\* Both users hold a token, and the last call returned one it did not
\* issue, after requests were handled.
C24_Witness ==
    /\ DOMAIN userTokens = Users
    /\ reply.kind = "link" /\ ~reply.details.issued
    /\ response.status = 200

----------------------------------------------------------------------------
(* Properties of the dashboard links *)

\* C30: the dashboard link that getUserChartUrl returns to a user always
\* starts with the host the server was configured with at start-up,
\* whatever HTTP requests (with whatever Host or X-Forwarded-Host headers,
\* from whatever client) the server has handled before; handling a request
\* never changes the link given to another user.
C30_LinkHostFixed ==
    reply.kind = "link" => IsPrefix(ConfiguredHost, reply.details.url)

----------------------------------------------------------------------------
(* Properties of the delete dialogue *)

\* The step is a reply of user u in the delete dialogue.
DialogueReply(u) ==
    /\ sender' = u
    /\ scene[u].active
    /\ reply'.kind \in {"cancelled", "allDeleted", "invalidNumber", "deleted",
                        "deleteFailed"}
    /\ <<msg', reply', scene'>> # <<msg, reply, scene>>

\* The text is a number: digits and nothing else.
IsNumber(text) == text # <<>> /\ DigitRun(text, 1) = Len(text)

\* C25: in the delete dialogue the user's store is changed only by the
\* reply all (clears that user's data) or by a number between 1 and the
\* length of the list shown (requests deletion of exactly that listed
\* point); the reply cancel and any other text change nothing; cancel, all
\* and a valid number leave the dialogue, and an invalid number keeps the
\* dialogue open for another reply.
C25_DeleteDialogue ==
    [][\A u \in Users : DialogueReply(u) =>
          \E text \in {trim(msg')}, points \in {scene[u].deletePoints} :
              /\ SameForOthers(userDataStore, userDataStore', u)
              /\ IF toLowerCase(text) = <<"c", "a", "n", "c", "e", "l">>
                 THEN userDataStore' = userDataStore /\ ~scene'[u].active
                 ELSE IF toLowerCase(text) = <<"a", "l", "l">>
                 THEN /\ userDataStore' = clearUserData(userDataStore, u)
                      /\ ~scene'[u].active
                 ELSE IF IsNumber(text) /\ DigitsToNat(text) \in 1..Len(points)
                 THEN /\ userDataStore' =
                            deleteDataPoint(userDataStore, u,
                                            points[DigitsToNat(text)].key,
                                            points[DigitsToNat(text)].timestamp.time).store
                      /\ ~scene'[u].active
                 ELSE /\ userDataStore' = userDataStore
                      /\ IsNumber(text) => scene'[u] = scene[u]]_vars

----------------------------------------------------------------------------
(* Properties of the latest values *)

\* The points of a key of user u.
KeyPoints(store, u, key) ==
    LET ofKey(p) == p.key = key
    IN  SelectSeq(UserPoints(store, u), ofKey)

\* C26: getUserLatestData(userId) returns, for every key that has at least
\* one point, the value of that key's latest point, the point with the
\* greatest timestamp, also when a dated record for the key was appended
\* after a record with a later timestamp.
C26_LatestIsGreatest ==
    \A u \in Users :
        /\ {e.key : e \in getUserLatestData(userDataStore, u)}
              = ChartKeys(userDataStore, u)
        /\ \A e \in getUserLatestData(userDataStore, u) :
              \E points \in {KeyPoints(userDataStore, u, e.key)} :
                  (\A i \in 1..Len(points) : points[i].timestamp.valid) =>
                      \E i \in 1..Len(points) :
                          /\ points[i].value = e.value
                          /\ \A j \in 1..Len(points) :
                                ~TimeBefore(points[i], points[j])

----------------------------------------------------------------------------
(* Properties of messages without records *)

\* The message has no fragment: it is empty or one of the blank messages.
ZeroRecords(m) == m = <<>> \/ m \in BlankMessages

\* The frame of a message that writes nothing, and its reply.
NothingWritten ==
    /\ UNCHANGED <<userDataStore, userPreferences, dataFile, preferencesFile,
                   userTokens, tokensFile>>
    /\ ZeroRecords(msg') => reply'.kind = "noValidData"
    /\ reply'.kind # "received"

\* C27: a text message that starts with / and a message that parses to
\* zero records (empty, white space only, or only a valid date header)
\* never cause a store write: the store is unchanged, and in the
\* zero-record case the user is told that no valid data was found instead
\* of receiving a confirmation.
C27_NoWriteWithoutRecords ==
    [][(now' = now /\ (CharAt(msg', 1) = "/" \/ ZeroRecords(msg'))) =>
          NothingWritten]_vars

\* C27 as amended: a text message that starts with / and is taken by no
\* command handler, and a message that parses to zero records, never cause
\* a store write: the store is unchanged, and in the zero-record case the
\* user is told that no valid data was found instead of receiving a
\* confirmation.
C27_NoWriteInTextHandler ==
    [][(now' = now /\ reply'.kind # "cleared"
           /\ (CharAt(msg', 1) = "/" \/ ZeroRecords(msg'))) =>
          NothingWritten]_vars

\* A date header alone was answered with 'no valid data' while the store
\* holds points, which are still there and on disk.
C27_Witness ==
    /\ msg = <<"D", "A", "T", "E", ":", " ", "2", "0", "2", "3", "-", "0", "5", "-", "1", "5">>
    /\ reply.kind = "noValidData"
    /\ result.called /\ result.ok /\ Len(result.records) = 0
    /\ Len(UserPoints(userDataStore, sender)) > 0
    /\ dataFile = File(StringifyStore(userDataStore))

----------------------------------------------------------------------------
(* Properties of the series *)

\* The timestamp a record is appended with at a clock.
TimestampOf(record, clock) ==
    IF "timestamp" \in DOMAIN record THEN record.timestamp
    ELSE [type |-> "Date", valid |-> TRUE, time |-> clock]

\* The value and the timestamp are those of one appended record, the
\* timestamp as it was pushed or as the data file gives it back.
OnePoint(key, value, timestamp) ==
    \E record \in StoreRecords, clock \in StartClock..now :
        /\ record.key = key
        /\ record.value = value
        /\ timestamp \in {TimestampOf(record, clock),
                          DateToJSON(TimestampOf(record, clock))}

----------------------------------------------------------------------------
(* Properties of the date patterns *)

\* The patterns that match the start of s.
MatchingPatterns(s) ==
    {i \in 1..Len(datePatterns) : MatchDatePattern(datePatterns[i], s).matched}

\* The orders the four patterns can be tried in.
PatternOrders ==
    {[i \in 1..Len(datePatterns) |-> datePatterns[p[i]]] :
        p \in {q \in [1..Len(datePatterns) -> 1..Len(datePatterns)] :
                  \A i, j \in 1..Len(datePatterns) : q[i] = q[j] => i = j}}

\* The date pattern i gives for the start of s.
DateOfPattern(i, s) ==
    DateFromMatch(MatchDatePattern(datePatterns[i], s).dateStr, Undefined)

\* C29: for every message at most one of the four date patterns can match
\* its start, so the order in which the patterns are tried never changes
\* the result, and a date object left over from a pattern that matched an
\* invalid date is never replaced or combined with the match of a later
\* pattern.
C29_OnePatternMatches ==
    result.called =>
        \E s \in {trim(msg)} :
            /\ Cardinality(MatchingPatterns(s)) <= 1
            /\ \A patterns \in PatternOrders :
                  result = Outcome(parseMessageIn(patterns, msg))
            /\ \A i \in MatchingPatterns(s) :
                  ~DateOfPattern(i, s).valid =>
                      /\ \A j \in i + 1..Len(datePatterns) : j \notin MatchingPatterns(s)
                      /\ ExtractDate(msg) =
                            [cleaned |-> s, messageDate |-> DateOfPattern(i, s),
                             stripped |-> FALSE]

\* A message was parsed whose start matched a pattern with a date that is
\* no date, and whose next line starts with a valid date.
C29_Witness ==
    /\ result.called
    /\ \E i \in MatchingPatterns(trim(msg)) : ~DateOfPattern(i, trim(msg)).valid
    /\ \E k \in 1..Len(msg) :
          /\ msg[k] = "\n"
          /\ MatchingPatterns(Drop(msg, k)) # {}

====
